---------------------------- MODULE Spec2Model ----------------------------
(***************************************************************************)
(* Model of the response normaliser of src/lib/gemini.ts (analyzeImage and *)
(* the validate* / calculate* helpers it calls).                           *)
(*                                                                         *)
(* JavaScript values are records [t, n, s]: t is the typeof tag, n the     *)
(* payload of a finite number and s the payload of a string, or the name   *)
(* of a non-finite number.  Finite numbers are fixed point: n counts       *)
(* 1/Scale units, so 0.99 is n = 99 and 1.5 kg is n = 150.                 *)
(*                                                                         *)
(* Field values range over undefined, null, strings and numbers (booleans  *)
(* and nested arrays in scalar fields are left out); finite numbers stay   *)
(* far below the overflow threshold, so a non-finite number only arises    *)
(* from a non-finite input such as 1e999 or "Infinity".                    *)
(***************************************************************************)
EXTENDS Integers, Sequences, FiniteSets, TLC

VARIABLES pc, now, text, result, error, errorName, calls, home, camera, imageInput

vars == <<pc, now, text, result, error, errorName, calls, home, camera, imageInput>>

\* the value of home, camera or imageInput while that component is not part
\* of the behaviour
NotMounted == <<>>

-----------------------------------------------------------------------------
(* Bounds of the input space and of the clock. *)

\* finite raw magnitudes range over -1/2 .. MaxHalves/2
MaxHalves == 4
\* longest run of prose tokens before and after the JSON body
MaxProse == 1
\* last clock reading
MaxClock == 1
\* number of analyzeImage calls in flight together
MaxCalls == 2
\* number of images submitted to the page
MaxSubmits == 3
\* number of times the camera is started or switched
MaxStarts == 3

\* fixed-point denominator: two decimal places
Scale == 100

Half == Scale \div 2

-----------------------------------------------------------------------------
(* JavaScript values *)

Undefined == [t |-> "undefined", n |-> 0, s |-> ""]
Null == [t |-> "null", n |-> 0, s |-> ""]
Num(k) == [t |-> "number", n |-> k, s |-> ""]
Infinity == [t |-> "number", n |-> 0, s |-> "Infinity"]
NegInfinity == [t |-> "number", n |-> 0, s |-> "-Infinity"]
NaN == [t |-> "number", n |-> 0, s |-> "NaN"]
Str(x) == [t |-> "string", n |-> 0, s |-> x]

Zero == Num(0)
One == Num(Scale)
Int2Num(k) == Num(k * Scale)

IsNumber(v) == v.t = "number"
IsFinite(v) == v.t = "number" /\ v.s = ""

\* isNaN on a number
isNaN(v) == v = NaN

\* the numeric strings of the input alphabet and their values; every other
\* string is not a numeric literal
StringToNumber(x) ==
    CASE x = "" -> Zero
      [] x = "2" -> Int2Num(2)
      [] x = "Infinity" -> Infinity
      [] x = "-Infinity" -> NegInfinity
      [] OTHER -> NaN

\* Number(value)
ToNumber(v) ==
    CASE v.t = "number" -> v
      [] v.t = "null" -> Zero
      [] v.t = "undefined" -> NaN
      [] v.t = "string" -> StringToNumber(v.s)
      [] OTHER -> NaN

\* truthiness, as used by the || defaults and by !url
Truthy(v) ==
    CASE v.t = "undefined" -> FALSE
      [] v.t = "null" -> FALSE
      [] v.t = "string" -> v.s # ""
      [] v.t = "number" -> ~(v = NaN \/ v = Zero)
      [] OTHER -> TRUE

\* a || b
OrElse(a, b) == IF Truthy(a) THEN a ELSE b

\* a <= b on numbers (false when either is NaN)
JsLe(a, b) ==
    /\ ~isNaN(a)
    /\ ~isNaN(b)
    /\ \/ a = NegInfinity
       \/ b = Infinity
       \/ (IsFinite(a) /\ IsFinite(b) /\ a.n <= b.n)

MathMax(a, b) ==
    IF isNaN(a) \/ isNaN(b) THEN NaN
    ELSE IF JsLe(a, b) THEN b ELSE a

MathMin(a, b) ==
    IF isNaN(a) \/ isNaN(b) THEN NaN
    ELSE IF JsLe(a, b) THEN a ELSE b

Sign(v) ==
    CASE v = Infinity -> 1
      [] v = NegInfinity -> -1
      [] v.n > 0 -> 1
      [] v.n < 0 -> -1
      [] OTHER -> 0

\* a + b
JsAdd(a, b) ==
    CASE isNaN(a) \/ isNaN(b) -> NaN
      [] IsFinite(a) /\ IsFinite(b) -> Num(a.n + b.n)
      [] IsFinite(a) -> b
      [] IsFinite(b) -> a
      [] a = b -> a
      [] OTHER -> NaN

\* a * b; the inputs are multiples of 1/2, so the fixed-point product of the
\* formula's operands is exact
JsMul(a, b) ==
    CASE isNaN(a) \/ isNaN(b) -> NaN
      [] IsFinite(a) /\ IsFinite(b) -> Num((a.n * b.n) \div Scale)
      [] Sign(a) * Sign(b) > 0 -> Infinity
      [] Sign(a) * Sign(b) < 0 -> NegInfinity
      [] OTHER -> NaN

\* Math.ceil(a / d) for a positive whole divisor d, computed exactly
CeilOfQuotient(a, d) ==
    IF IsFinite(a)
    THEN Int2Num(-((-(a.n)) \div (d * Scale)))
    ELSE a

\* template-literal rendering of a number
NumToString(v) == IF v.s # "" THEN v.s ELSE ToString(v.n)

-----------------------------------------------------------------------------
(* Environmental constants *)

TREE_CO2_ABSORPTION_PER_YEAR == 22
AVERAGE_TREE_LIFESPAN == 40

-----------------------------------------------------------------------------
(* Utility functions *)

\* variant: the upper bound is not applied
validateNumberNoUpperBound(value, min, max) ==
    LET num == ToNumber(value)
    IN IF isNaN(num) THEN min
       ELSE MathMax(min, num)

\* variant: the lower bound is not applied
validateNumberNoLowerBound(value, min, max) ==
    LET num == ToNumber(value)
    IN IF isNaN(num) THEN min
       ELSE MathMin(max, num)

\* variant: a value that is not a number becomes 0 whatever the minimum
validateNumberDefaultsToZero(value, min, max) ==
    LET num == ToNumber(value)
    IN IF isNaN(num) THEN Zero
       ELSE MathMin(max, MathMax(min, num))

validateNumber(value, min, max) ==
    LET num == ToNumber(value)
    IN IF isNaN(num) THEN min
       ELSE MathMin(max, MathMax(min, num))

\* variant: the manufacturing term is left out
calculateLifetimeEmissionsOperationalOnly(manufacturing_kg_co2, daily_operation_kg_co2, lifespan_years) ==
    JsMul(JsMul(daily_operation_kg_co2, Int2Num(365)), lifespan_years)

calculateLifetimeEmissions(manufacturing_kg_co2, daily_operation_kg_co2, lifespan_years) ==
    LET days_in_year == Int2Num(365)
        lifetime_operational ==
            JsMul(JsMul(daily_operation_kg_co2, days_in_year), lifespan_years)
    IN JsAdd(manufacturing_kg_co2, lifetime_operational)

\* variant: Math.floor in place of Math.ceil
calculateTreesRequiredRoundsDown(lifetime_total_kg_co2) ==
    IF JsLe(lifetime_total_kg_co2, Zero) THEN One
    ELSE IF IsFinite(lifetime_total_kg_co2)
         THEN MathMax(One, Int2Num(lifetime_total_kg_co2.n
                  \div (TREE_CO2_ABSORPTION_PER_YEAR * AVERAGE_TREE_LIFESPAN * Scale)))
         ELSE lifetime_total_kg_co2

calculateTreesRequired(lifetime_total_kg_co2) ==
    IF JsLe(lifetime_total_kg_co2, Zero) THEN One
    ELSE LET totalAbsorptionPerTree ==
                 TREE_CO2_ABSORPTION_PER_YEAR * AVERAGE_TREE_LIFESPAN
         IN MathMax(One, CeilOfQuotient(lifetime_total_kg_co2, totalAbsorptionPerTree))


\* the URL strings of the input alphabet that new URL() accepts
UrlSyntaxOk(x) ==
    x \in {"https://epa.gov/ghg", "https://example.com/report",
           "https://epa.gov/?ref=example.com", "https://notexample.com/x"}

\* url.includes('example.com') on the strings of the input alphabet
IncludesExampleCom(x) ==
    x \in {"https://example.com/report", "https://epa.gov/?ref=example.com",
           "https://notexample.com/x", "see example.com"}

\* variant: the catch returns the url it was given
validateUrlKeepsUnparsable(url) ==
    IF ~Truthy(url) THEN Undefined
    ELSE IF url.t = "string" /\ UrlSyntaxOk(url.s)
         THEN (IF IncludesExampleCom(url.s) THEN Undefined ELSE url)
         ELSE url

validateUrl(url) ==
    IF ~Truthy(url) THEN Undefined
    ELSE IF url.t = "string" /\ UrlSyntaxOk(url.s)
         THEN (IF IncludesExampleCom(url.s) THEN Undefined ELSE url)
         ELSE Undefined

\* new Date().getFullYear().toString(); two clock readings per year
getFullYear(t) == Str(ToString(1970 + (t \div 2)))

\* new Date().toISOString()
toISOString(t) == Str("T" \o ToString(t))

\* a Source object; t = "undefined" / "null" stands for an absent one
MkSource(name, reliability_score, year_published, url, doi) ==
    [t |-> "object", name |-> name, reliability_score |-> reliability_score,
     year_published |-> year_published, url |-> url, doi |-> doi]

NoSource(tag) ==
    [t |-> tag, name |-> Undefined, reliability_score |-> Undefined,
     year_published |-> Undefined, url |-> Undefined, doi |-> Undefined]

\* reading a property of undefined or null raises a TypeError
validateSourceThrows(source) == source.t # "object"

validateSource(source, t) ==
    MkSource(OrElse(source.name, Str("Unknown Source")),
             validateNumber(source.reliability_score, Zero, One),
             OrElse(source.year_published, getFullYear(t)),
             validateUrl(source.url),
             source.doi)

\* arrays: t = "array" with its items; any other t is a non-array value with
\* no items ("string" stands for a truthy non-array)
Arr(items) == [t |-> "array", items |-> items]
NoArr(tag) == [t |-> tag, items |-> <<>>]

\* (list || []).map(validateSource)
mapValidateSourceThrows(list) ==
    \/ list.t \notin {"array", "undefined", "null"}
    \/ \E i \in DOMAIN list.items : validateSourceThrows(list.items[i])

\* variant: the list comes out in reverse order
mapValidateSourceReversed(list, t) ==
    Arr([i \in DOMAIN list.items |->
            validateSource(list.items[Len(list.items) + 1 - i], t)])

mapValidateSource(list, t) ==
    Arr([i \in DOMAIN list.items |-> validateSource(list.items[i], t)])

MkFootprint(lifetime, manufacturing, daily, unit, confidence, basis, sources, trees) ==
    [t |-> "object",
     lifetime_total_kg_co2 |-> lifetime,
     manufacturing_kg_co2 |-> manufacturing,
     daily_operation_kg_co2 |-> daily,
     unit |-> unit,
     confidence_score |-> confidence,
     calculation_basis |-> basis,
     sources |-> sources,
     trees_required |-> trees]

NoFootprint ==
    [MkFootprint(Undefined, Undefined, Undefined, Undefined, Undefined, Undefined,
                 NoArr("undefined"), Undefined) EXCEPT !.t = "undefined"]

MkMetadata(lifespan, usage, data_source, region, methodology) ==
    [t |-> "object",
     assumed_lifespan_years |-> lifespan,
     usage_assumptions |-> usage,
     data_source |-> data_source,
     geographical_region |-> region,
     methodology_source |-> methodology]

NoMetadata ==
    [MkMetadata(Undefined, Undefined, Undefined, Undefined, NoSource("undefined"))
        EXCEPT !.t = "undefined"]

\* variant: both phrases are required
IsHumanBothPhrases(metadata) ==
    /\ metadata.data_source = Str("Global standardized human values")
    /\ metadata.geographical_region = Str("Global standardized")

\* variant: the phrases are looked for without regard to case, anywhere in
\* the field
IsHumanLoosely(metadata) ==
    \/ metadata.data_source \in {Str("Global standardized human values"),
                                 Str("global standardized human values")}
    \/ metadata.geographical_region \in {Str("Global standardized"),
                                         Str("Global standardized region")}

\* the special case for humans
IsHuman(metadata) ==
    \/ metadata.data_source = Str("Global standardized human values")
    \/ metadata.geographical_region = Str("Global standardized")

\* variant: the human check comes before the first read of the footprint
validateCarbonFootprintThrowsHumanFirst(footprint, metadata) ==
    \/ metadata.t # "object"
    \/ (~IsHuman(metadata) /\ footprint.t # "object")
    \/ (~IsHuman(metadata) /\ mapValidateSourceThrows(footprint.sources))

\* lines 103-105 read the footprint and the metadata; line 143 maps the sources
validateCarbonFootprintThrows(footprint, metadata) ==
    \/ footprint.t # "object"
    \/ metadata.t # "object"
    \/ (~IsHuman(metadata) /\ mapValidateSourceThrows(footprint.sources))

validateCarbonFootprint(footprint, metadata, t) ==
    LET manufacturing == validateNumber(footprint.manufacturing_kg_co2, Zero, Infinity)
        daily_operation == validateNumber(footprint.daily_operation_kg_co2, Zero, Infinity)
        lifespan == validateNumber(metadata.assumed_lifespan_years, One, Infinity)
    IN IF IsHuman(metadata)
       THEN MkFootprint(
                Int2Num(400000),
                Zero,
                Int2Num(15),
                Str("kg_co2"),
                Num((99 * Scale) \div 100),
                Str("Based on global standardized human values"),
                Arr(<<MkSource(Str("Global standardized human values"),
                               Num((99 * Scale) \div 100),
                               Str("2024"), Undefined, Undefined)>>),
                calculateTreesRequired(Int2Num(400000)))
       ELSE LET calculated_lifetime_total ==
                    calculateLifetimeEmissions(manufacturing, daily_operation, lifespan)
            IN MkFootprint(
                   calculated_lifetime_total,
                   manufacturing,
                   daily_operation,
                   Str("kg_co2"),
                   validateNumber(footprint.confidence_score, Zero, One),
                   Str("Based on " \o NumToString(lifespan)
                       \o " years lifespan with manufacturing emissions of "
                       \o NumToString(manufacturing)
                       \o " kg CO2 and daily operational emissions of "
                       \o NumToString(daily_operation) \o " kg CO2"),
                   mapValidateSource(footprint.sources, t),
                   calculateTreesRequired(calculated_lifetime_total))

validateMetadataThrows(metadata) == metadata.t # "object"

\* variant: the lifespan is clamped from 0, not from 1
validateMetadataLifespanFromZero(metadata, t) ==
    MkMetadata(
        validateNumber(metadata.assumed_lifespan_years, Zero, Infinity),
        OrElse(metadata.usage_assumptions, Str("Standard usage patterns")),
        OrElse(metadata.data_source, Str("Verified environmental impact studies")),
        OrElse(metadata.geographical_region, Str("Global")),
        IF metadata.methodology_source.t = "object"
        THEN validateSource(metadata.methodology_source, t)
        ELSE NoSource("undefined"))

\* variant: one missing text field puts the default in all three
validateMetadataDefaultsTogether(metadata, t) ==
    LET complete ==
            /\ Truthy(metadata.usage_assumptions)
            /\ Truthy(metadata.data_source)
            /\ Truthy(metadata.geographical_region)
    IN MkMetadata(
           validateNumber(metadata.assumed_lifespan_years, One, Infinity),
           IF complete THEN metadata.usage_assumptions ELSE Str("Standard usage patterns"),
           IF complete THEN metadata.data_source
           ELSE Str("Verified environmental impact studies"),
           IF complete THEN metadata.geographical_region ELSE Str("Global"),
           IF metadata.methodology_source.t = "object"
           THEN validateSource(metadata.methodology_source, t)
           ELSE NoSource("undefined"))

validateMetadata(metadata, t) ==
    MkMetadata(
        validateNumber(metadata.assumed_lifespan_years, One, Infinity),
        OrElse(metadata.usage_assumptions, Str("Standard usage patterns")),
        OrElse(metadata.data_source, Str("Verified environmental impact studies")),
        OrElse(metadata.geographical_region, Str("Global")),
        IF metadata.methodology_source.t = "object"
        THEN validateSource(metadata.methodology_source, t)
        ELSE NoSource("undefined"))

-----------------------------------------------------------------------------
(* The parsed response and the processed result share one shape. *)

MkObject(name, carbon_footprint, metadata) ==
    [t |-> "object", name |-> name, carbon_footprint |-> carbon_footprint,
     metadata |-> metadata]

\* a null entry of the objects array
NullObject == [MkObject(Undefined, NoFootprint, NoMetadata) EXCEPT !.t = "null"]

MkAnalysisMetadata(timestamp, image_quality, count, region, version, data_sources) ==
    [t |-> "object",
     timestamp |-> timestamp,
     image_quality |-> image_quality,
     number_of_objects_detected |-> count,
     default_region |-> region,
     model_version |-> version,
     data_sources |-> data_sources]

NoAnalysisMetadata ==
    [MkAnalysisMetadata(Undefined, Undefined, Undefined, Undefined, Undefined,
                        NoArr("undefined")) EXCEPT !.t = "undefined"]

MkResponse(objects, analysis_metadata) ==
    [t |-> "object", objects |-> objects, analysis_metadata |-> analysis_metadata]

\* the value of the text {}
EmptyResponse == MkResponse(NoArr("undefined"), NoAnalysisMetadata)

\* a JSON scalar (a number, a string, null): no property of it is defined
ScalarResponse == [EmptyResponse EXCEPT !.t = "scalar"]

-----------------------------------------------------------------------------
(* The response text: a sequence of tokens.  "{" and "}" are braces, "w" a  *)
(* prose word, " " white space, "lit" a JSON scalar literal and "body" the  *)
(* member list of the response object, which carries the value it denotes.  *)
(* A body token only occurs between its own braces.                         *)

Tok(c) == [c |-> c, body |-> EmptyResponse]
Body(r) == [c |-> "body", body |-> r]

\* the JSON text of a response object
JsonText(r) == IF r = EmptyResponse THEN <<Tok("{"), Tok("}")>>
               ELSE <<Tok("{"), Body(r), Tok("}")>>

IsSpace(tok) == tok.c = " "

\* JSON.parse(text): ok with the value, or a SyntaxError
JSONparse(toks) ==
    LET core == SelectSeq(toks, LAMBDA k : ~IsSpace(k))
    IN CASE Len(core) = 2 /\ core[1].c = "{" /\ core[2].c = "}" ->
                [ok |-> TRUE, value |-> EmptyResponse]
         [] Len(core) = 3 /\ core[1].c = "{" /\ core[2].c = "body" /\ core[3].c = "}" ->
                [ok |-> TRUE, value |-> core[2].body]
         [] Len(core) = 1 /\ core[1].c = "lit" ->
                [ok |-> TRUE, value |-> ScalarResponse]
         [] OTHER -> [ok |-> FALSE, value |-> EmptyResponse]

\* text.match(/\{[\s\S]*\}/): from the first "{" to the last "}"
match(toks) ==
    LET opens == {i \in DOMAIN toks : toks[i].c = "{"}
        closes == {i \in DOMAIN toks : toks[i].c = "}"}
        first == CHOOSE i \in opens : \A j \in opens : i <= j
        last == CHOOSE i \in closes : \A j \in closes : j <= i
    IN IF opens # {} /\ closes # {} /\ first < last
       THEN [found |-> TRUE, value |-> SubSeq(toks, first, last)]
       ELSE [found |-> FALSE, value |-> <<>>]

\* variant: no fallback; a text that does not parse directly is refused
extractJsonNoFallback(toks) ==
    LET direct == JSONparse(toks)
    IN IF direct.ok THEN [ok |-> TRUE, value |-> direct.value, message |-> ""]
       ELSE [ok |-> FALSE, value |-> EmptyResponse,
             message |-> "Invalid response format from AI model"]

\* lines 389-398: the direct parse, then the brace-matching fallback
extractJson(toks) ==
    LET direct == JSONparse(toks)
        jsonMatch == match(toks)
    IN IF direct.ok THEN [ok |-> TRUE, value |-> direct.value, message |-> ""]
       ELSE IF ~jsonMatch.found
            THEN [ok |-> FALSE, value |-> EmptyResponse,
                  message |-> "Invalid response format from AI model"]
            ELSE LET second == JSONparse(jsonMatch.value)
                 IN IF second.ok
                    THEN [ok |-> TRUE, value |-> second.value, message |-> ""]
                    ELSE [ok |-> FALSE, value |-> EmptyResponse,
                          message |-> "SyntaxError"]

\* variant: analysis_metadata is read with optional chaining
processResultThrowsMetadataOptional(parsedResult) ==
    \/ parsedResult.t # "object"
    \/ parsedResult.objects.t # "array"
    \/ \E i \in DOMAIN parsedResult.objects.items :
          LET obj == parsedResult.objects.items[i]
          IN \/ obj.t # "object"
             \/ validateCarbonFootprintThrows(obj.carbon_footprint, obj.metadata)
             \/ validateMetadataThrows(obj.metadata)
    \/ mapValidateSourceThrows(parsedResult.analysis_metadata.data_sources)

\* the TypeErrors of lines 401-416
processResultThrows(parsedResult) ==
    \/ parsedResult.t # "object"
    \/ parsedResult.objects.t # "array"
    \/ \E i \in DOMAIN parsedResult.objects.items :
          LET obj == parsedResult.objects.items[i]
          IN \/ obj.t # "object"
             \/ validateCarbonFootprintThrows(obj.carbon_footprint, obj.metadata)
             \/ validateMetadataThrows(obj.metadata)
    \/ parsedResult.analysis_metadata.t # "object"
    \/ mapValidateSourceThrows(parsedResult.analysis_metadata.data_sources)

\* variant: a numeric count of the response is kept
processAnalysisMetadataTrustsCount(parsedResult, t) ==
    MkAnalysisMetadata(
        toISOString(t),
        OrElse(parsedResult.analysis_metadata.image_quality, Str("standard")),
        IF IsNumber(parsedResult.analysis_metadata.number_of_objects_detected)
        THEN parsedResult.analysis_metadata.number_of_objects_detected
        ELSE Int2Num(Len(parsedResult.objects.items)),
        OrElse(parsedResult.analysis_metadata.default_region, Str("Global")),
        OrElse(parsedResult.analysis_metadata.model_version, Str("1.0")),
        mapValidateSource(parsedResult.analysis_metadata.data_sources, t))

\* variant: a timestamp of the response is kept
processAnalysisMetadataKeepsTimestamp(parsedResult, t) ==
    MkAnalysisMetadata(
        OrElse(parsedResult.analysis_metadata.timestamp, toISOString(t)),
        OrElse(parsedResult.analysis_metadata.image_quality, Str("standard")),
        Int2Num(Len(parsedResult.objects.items)),
        OrElse(parsedResult.analysis_metadata.default_region, Str("Global")),
        OrElse(parsedResult.analysis_metadata.model_version, Str("1.0")),
        mapValidateSource(parsedResult.analysis_metadata.data_sources, t))

\* lines 407-415: the analysis_metadata of processedResult
processAnalysisMetadata(parsedResult, t) ==
    MkAnalysisMetadata(
        toISOString(t),
        OrElse(parsedResult.analysis_metadata.image_quality, Str("standard")),
        Int2Num(Len(parsedResult.objects.items)),
        OrElse(parsedResult.analysis_metadata.default_region, Str("Global")),
        OrElse(parsedResult.analysis_metadata.model_version, Str("1.0")),
        mapValidateSource(parsedResult.analysis_metadata.data_sources, t))

\* lines 401-416: processedResult
processResult(parsedResult, t) ==
    MkResponse(
        Arr([i \in DOMAIN parsedResult.objects.items |->
                LET obj == parsedResult.objects.items[i]
                IN MkObject(obj.name,
                            validateCarbonFootprint(obj.carbon_footprint, obj.metadata, t),
                            validateMetadata(obj.metadata, t))]),
        processAnalysisMetadata(parsedResult, t))

Fulfilled(value) ==
    [status |-> "fulfilled", value |-> value, message |-> "", name |-> ""]

\* line 422: every failure is rethrown as a plain Error with a prefixed
\* message; name is the name of the error's class
Rejected(message) ==
    [status |-> "rejected", value |-> EmptyResponse,
     message |-> "Image analysis failed: " \o message, name |-> "Error"]

\* variant: the object found by the fallback is returned as parsed
analyzeImageFallbackUnprocessed(toks, t) ==
    LET parsed == extractJson(toks)
    IN IF ~parsed.ok THEN Rejected(parsed.message)
       ELSE IF ~JSONparse(toks).ok THEN Fulfilled(parsed.value)
       ELSE IF processResultThrows(parsed.value) THEN Rejected("TypeError")
       ELSE Fulfilled(processResult(parsed.value, t))

\* lines 387-423: what analyzeImage does with the response text at time t
analyzeImage(toks, t) ==
    LET parsed == extractJson(toks)
    IN IF ~parsed.ok THEN Rejected(parsed.message)
       ELSE IF processResultThrows(parsed.value) THEN Rejected("TypeError")
       ELSE Fulfilled(processResult(parsed.value, t))

-----------------------------------------------------------------------------
(* JSON.stringify of a result: NaN and the infinities are written as null, *)
(* an undefined property is left out (and reads as undefined again).       *)

JsonValue(v) == IF IsNumber(v) /\ ~IsFinite(v) THEN Null ELSE v

JsonSource(src) ==
    [t |-> src.t, name |-> JsonValue(src.name),
     reliability_score |-> JsonValue(src.reliability_score),
     year_published |-> JsonValue(src.year_published),
     url |-> JsonValue(src.url), doi |-> JsonValue(src.doi)]

JsonSources(list) ==
    [t |-> list.t, items |-> [k \in DOMAIN list.items |-> JsonSource(list.items[k])]]

JsonFootprint(f) ==
    [t |-> f.t,
     lifetime_total_kg_co2 |-> JsonValue(f.lifetime_total_kg_co2),
     manufacturing_kg_co2 |-> JsonValue(f.manufacturing_kg_co2),
     daily_operation_kg_co2 |-> JsonValue(f.daily_operation_kg_co2),
     unit |-> JsonValue(f.unit),
     confidence_score |-> JsonValue(f.confidence_score),
     calculation_basis |-> JsonValue(f.calculation_basis),
     sources |-> JsonSources(f.sources),
     trees_required |-> JsonValue(f.trees_required)]

JsonMetadata(m) ==
    [t |-> m.t,
     assumed_lifespan_years |-> JsonValue(m.assumed_lifespan_years),
     usage_assumptions |-> JsonValue(m.usage_assumptions),
     data_source |-> JsonValue(m.data_source),
     geographical_region |-> JsonValue(m.geographical_region),
     methodology_source |-> JsonSource(m.methodology_source)]

JsonObject(o) ==
    [t |-> o.t, name |-> JsonValue(o.name),
     carbon_footprint |-> JsonFootprint(o.carbon_footprint),
     metadata |-> JsonMetadata(o.metadata)]

JsonAnalysisMetadata(a) ==
    [t |-> a.t,
     timestamp |-> JsonValue(a.timestamp),
     image_quality |-> JsonValue(a.image_quality),
     number_of_objects_detected |-> JsonValue(a.number_of_objects_detected),
     default_region |-> JsonValue(a.default_region),
     model_version |-> JsonValue(a.model_version),
     data_sources |-> JsonSources(a.data_sources)]

\* the text JSON.stringify(r) of a result r
JSONstringify(r) ==
    JsonText([t |-> r.t,
              objects |-> [t |-> r.objects.t,
                           items |-> [i \in DOMAIN r.objects.items |->
                                         JsonObject(r.objects.items[i])]],
              analysis_metadata |-> JsonAnalysisMetadata(r.analysis_metadata)])

-----------------------------------------------------------------------------
(* The responses the external model may give.  Each family varies a few    *)
(* fields over all their values and leaves the others at a base value.     *)

\* raw values of a magnitude: finite multiples of 1/2, and the values that
\* coerce to NaN, to 0 and to Infinity (1e999 parses to Infinity)
Magnitudes ==
    {Undefined, Str("abc"), Infinity} \cup {Num(k * Half) : k \in -1 .. MaxHalves}

SmallMagnitudes ==
    {Undefined, Null, Str(""), Str("2"), Str("not-a-number"), Infinity,
     Num(-Half), Num(Half)}

\* raw values of a score
Scores ==
    {Undefined, Null, Str("abc"), Infinity, NegInfinity,
     Num(-Half), Zero, Num(Half), One, Num(Scale + 2 * (Scale \div 5))}

Urls ==
    {Undefined, Null, Str(""), Num(5), Str("not a url"), Str("see example.com"),
     Str("https://epa.gov/ghg"), Str("https://example.com/report"),
     Str("https://epa.gov/?ref=example.com"), Str("https://notexample.com/x")}

BaseSource ==
    MkSource(Str("EPA"), Num(Half), Str("2020"), Str("https://epa.gov/ghg"), Str("10.1/x"))

RawSources ==
    {[BaseSource EXCEPT !.reliability_score = r] : r \in Scores}
    \cup {[BaseSource EXCEPT !.url = u] : u \in Urls}
    \cup {[BaseSource EXCEPT !.name = n, !.year_published = y, !.doi = d] :
            n \in {Undefined, Str("")}, y \in {Undefined, Zero, Num(2020)},
            d \in {Undefined, Null}}
    \cup {MkSource(Undefined, Undefined, Undefined, Undefined, Undefined)}

SourceLists ==
    {NoArr("undefined"), NoArr("null"), NoArr("string"), Arr(<<>>),
     Arr(<<NoSource("null")>>), Arr(<<BaseSource, NoSource("undefined")>>)}
    \cup {Arr(<<src>>) : src \in RawSources}
    \cup {Arr(<<src, BaseSource>>) : src \in {[BaseSource EXCEPT !.reliability_score = r] :
                                               r \in {Infinity, Str("abc")}}}

BaseFootprint ==
    MkFootprint(Int2Num(7), Num(Half), Num(Half), Str("kg"), Num(Half),
                Str("model's own basis"), Arr(<<BaseSource>>), Int2Num(9))

BaseMetadata ==
    MkMetadata(Int2Num(2), Str("daily use"), Str("EPA"), Str("Europe"), NoSource("undefined"))

NumericObjects ==
    {MkObject(Str("Mug"),
              [BaseFootprint EXCEPT !.manufacturing_kg_co2 = m,
                                    !.daily_operation_kg_co2 = d],
              [BaseMetadata EXCEPT !.assumed_lifespan_years = l]) :
        m \in SmallMagnitudes, d \in Magnitudes, l \in Magnitudes}

ScoreObjects ==
    {MkObject(Str("Lamp"), [BaseFootprint EXCEPT !.confidence_score = c], BaseMetadata) :
        c \in Scores}
    \cup {MkObject(Str("Lamp"), [BaseFootprint EXCEPT !.sources = l], BaseMetadata) :
            l \in SourceLists}
    \cup {MkObject(Str("Lamp"), BaseFootprint,
                   [BaseMetadata EXCEPT !.methodology_source = src]) :
            src \in RawSources \cup {NoSource("null")}}

DataSources ==
    {Undefined, Str(""), Str("EPA"), Str("Global standardized human values"),
     Str("global standardized human values")}

Regions ==
    {Undefined, Null, Str("Europe"), Str("Global standardized"),
     Str("Global standardized region")}

CategoryObjects ==
    {MkObject(Str("Person"),
              [BaseFootprint EXCEPT !.manufacturing_kg_co2 = m, !.sources = l],
              [BaseMetadata EXCEPT !.data_source = ds, !.geographical_region = r,
                                   !.assumed_lifespan_years = y]) :
        m \in {Num(Half), Infinity},
        l \in {Arr(<<BaseSource>>), NoArr("string"), Arr(<<NoSource("null")>>)},
        ds \in DataSources, r \in Regions,
        y \in {Undefined, Int2Num(2)}}

DerivedObjects ==
    {MkObject(n,
              [BaseFootprint EXCEPT !.lifetime_total_kg_co2 = lt, !.trees_required = tr,
                                    !.unit = u, !.calculation_basis = u],
              [BaseMetadata EXCEPT !.usage_assumptions = u]) :
        n \in {Undefined, Null, Str("")},
        lt \in {Undefined, Infinity, Num(0 - Half)},
        tr \in {Undefined, Zero},
        u \in {Undefined, Str("")}}

StructureObjects ==
    {NullObject,
     MkObject(Str("Mug"), NoFootprint, BaseMetadata),
     MkObject(Str("Mug"), BaseFootprint, NoMetadata),
     MkObject(Str("Mug"), NoFootprint,
              [BaseMetadata EXCEPT !.geographical_region = Str("Global standardized")]),
     MkObject(Str("Mug"), NoFootprint, NoMetadata)}

RawObjects ==
    NumericObjects \cup ScoreObjects \cup CategoryObjects \cup DerivedObjects
    \cup StructureObjects

BaseObject == MkObject(Str("Mug"), BaseFootprint, BaseMetadata)

HumanObject ==
    MkObject(Str("Person"), BaseFootprint,
             [BaseMetadata EXCEPT !.geographical_region = Str("Global standardized")])

BaseAnalysisMetadata ==
    MkAnalysisMetadata(Str("2020-01-01T00:00:00Z"), Str("high"), Int2Num(7),
                       Str("Europe"), Str("2.0"), Arr(<<BaseSource>>))

RawAnalysisMetadata ==
    {NoAnalysisMetadata, [NoAnalysisMetadata EXCEPT !.t = "null"],
     [NoAnalysisMetadata EXCEPT !.t = "object"]}
    \cup {[BaseAnalysisMetadata EXCEPT !.number_of_objects_detected = c, !.timestamp = ts] :
            c \in {Undefined, Str("abc"), Zero, Int2Num(1)},
            ts \in {Undefined, Str("T0")}}
    \cup {[BaseAnalysisMetadata EXCEPT !.image_quality = q, !.default_region = r,
                                       !.model_version = v] :
            q \in {Undefined, Str("")}, r \in {Null, Str("Asia")}, v \in {Zero, Str("3")}}
    \cup {[BaseAnalysisMetadata EXCEPT !.data_sources = l] : l \in SourceLists}

\* the responses that also occur wrapped in prose
WrappedResponses ==
    {EmptyResponse,
     MkResponse(Arr(<<BaseObject>>), BaseAnalysisMetadata),
     MkResponse(Arr(<<HumanObject, BaseObject>>), BaseAnalysisMetadata),
     MkResponse(Arr(<<BaseObject>>), NoAnalysisMetadata),
     MkResponse(Arr(<<MkObject(Str("Mug"), NoFootprint, BaseMetadata)>>),
                BaseAnalysisMetadata)}

Responses ==
    {MkResponse(Arr(<<o>>), BaseAnalysisMetadata) : o \in RawObjects}
    \cup {MkResponse(Arr(<<o, p>>), BaseAnalysisMetadata) :
            o \in StructureObjects \cup {BaseObject, HumanObject},
            p \in {BaseObject, HumanObject}}
    \cup {MkResponse(l, am) :
            l \in {Arr(<<>>), Arr(<<BaseObject>>)}, am \in RawAnalysisMetadata}
    \cup {MkResponse(l, BaseAnalysisMetadata) :
            l \in {NoArr("undefined"), NoArr("null"), NoArr("string")}}
    \cup WrappedResponses

ProseTokens == {Tok("{"), Tok("}"), Tok("w"), Tok(" "), Tok("lit")}

RECURSIVE Prose(_)
\* the token runs of length at most k
Prose(k) ==
    IF k = 0 THEN {<<>>}
    ELSE LET shorter == Prose(k - 1)
         IN shorter \cup {Append(p, c) : p \in shorter, c \in ProseTokens}

Texts ==
    {JsonText(r) : r \in Responses}
    \cup {p \o JsonText(r) \o q :
            p \in Prose(MaxProse), q \in Prose(MaxProse), r \in WrappedResponses}
    \cup Prose(MaxProse + 1)

-----------------------------------------------------------------------------
(* One call of analyzeImage. *)

NoError == ""

Init ==
    /\ pc = "idle"
    /\ now = 0
    /\ text = <<>>
    /\ result = EmptyResponse
    /\ error = NoError
    /\ errorName = ""
    /\ calls = <<>>
    /\ home = NotMounted
    /\ camera = NotMounted
    /\ imageInput = NotMounted

\* time passes until the call settles
Tick ==
    /\ pc \in {"idle", "awaiting", "responded"}
    /\ now < MaxClock
    /\ now' = now + 1
    /\ UNCHANGED <<pc, text, result, error, errorName, calls, home, camera, imageInput>>

\* line 382: the request is sent and the call awaits the model
Call ==
    /\ pc = "idle"
    /\ pc' = "awaiting"
    /\ UNCHANGED <<now, text, result, error, errorName, calls, home, camera, imageInput>>

\* lines 382-387: the model answers with some text
GenerateContentResolves ==
    /\ pc = "awaiting"
    /\ \E toks \in Texts : text' = toks
    /\ pc' = "responded"
    /\ UNCHANGED <<now, result, error, errorName, calls, home, camera, imageInput>>

\* lines 382, 420-422: the external call fails (network, auth, quota)
GenerateContentRejects ==
    /\ pc = "awaiting"
    /\ pc' = "failed"
    /\ error' = Rejected("fetch failed").message
    /\ errorName' = Rejected("fetch failed").name
    /\ UNCHANGED <<now, text, result, calls, home, camera, imageInput>>

\* lines 389-423: extraction, normalisation and assembly, run to completion
Process ==
    /\ pc = "responded"
    /\ LET outcome == analyzeImage(text, now)
       IN /\ pc' = IF outcome.status = "fulfilled" THEN "done" ELSE "failed"
          /\ result' = outcome.value
          /\ error' = outcome.message
          /\ errorName' = outcome.name
    /\ UNCHANGED <<now, text, calls, home, camera, imageInput>>

Next ==
    \/ Tick
    \/ Call
    \/ GenerateContentResolves
    \/ GenerateContentRejects
    \/ Process

Spec == Init /\ [][Next]_vars

-----------------------------------------------------------------------------
(* Several calls of analyzeImage in flight together.  Each invocation has  *)
(* its own locals (lines 381-416: result, response, text, parsedResult,    *)
(* processedResult); the clock is the one thing the invocations share.     *)

Calls == 1 .. MaxCalls

\* the responses given to the concurrent calls
CallTexts ==
    {JsonText(MkResponse(Arr(<<BaseObject>>), BaseAnalysisMetadata)),
     JsonText(MkResponse(Arr(<<HumanObject, BaseObject>>), BaseAnalysisMetadata)),
     <<Tok("w")>> \o JsonText(MkResponse(Arr(<<BaseObject>>), NoAnalysisMetadata)),
     JsonText(MkResponse(Arr(<<MkObject(Str("Mug"), NoFootprint, BaseMetadata)>>),
                         BaseAnalysisMetadata)),
     <<Tok("w"), Tok("{")>>}

\* the locals of an invocation that has not sent its request
IdleCall ==
    [pc |-> "idle", text |-> <<>>, result |-> EmptyResponse, error |-> NoError,
     errorName |-> ""]

InitCalls ==
    /\ pc = "idle"
    /\ now = 0
    /\ text = <<>>
    /\ result = EmptyResponse
    /\ error = NoError
    /\ errorName = ""
    /\ calls = [c \in Calls |-> IdleCall]
    /\ home = NotMounted
    /\ camera = NotMounted
    /\ imageInput = NotMounted

\* variant: the text is kept in one place, written by the first call
textOfFirstCall(c) == calls[1].text

\* line 387: the text that invocation c reads is its own const
textOf(c) == calls[c].text

ClockTicks ==
    /\ now < MaxClock
    /\ now' = now + 1
    /\ UNCHANGED <<pc, text, result, error, errorName, calls, home, camera, imageInput>>

\* line 382: invocation c sends its request
CallStarts(c) ==
    /\ calls[c].pc = "idle"
    /\ calls' = [calls EXCEPT ![c].pc = "awaiting"]
    /\ UNCHANGED <<pc, now, text, result, error, errorName, home, camera, imageInput>>

\* lines 382-387: the model answers invocation c
CallResponds(c) ==
    /\ calls[c].pc = "awaiting"
    /\ \E toks \in CallTexts :
          calls' = [calls EXCEPT ![c].pc = "responded", ![c].text = toks]
    /\ UNCHANGED <<pc, now, text, result, error, errorName, home, camera, imageInput>>

\* lines 382, 420-422: the external call of invocation c fails
CallRejects(c) ==
    /\ calls[c].pc = "awaiting"
    /\ calls' = [calls EXCEPT ![c].pc = "failed",
                              ![c].error = Rejected("fetch failed").message,
                              ![c].errorName = Rejected("fetch failed").name]
    /\ UNCHANGED <<pc, now, text, result, error, errorName, home, camera, imageInput>>

\* lines 389-423: invocation c processes its text, run to completion
CallProcesses(c) ==
    /\ calls[c].pc = "responded"
    /\ LET outcome == analyzeImage(textOf(c), now)
       IN calls' = [calls EXCEPT
                      ![c].pc = IF outcome.status = "fulfilled" THEN "done" ELSE "failed",
                      ![c].result = outcome.value,
                      ![c].error = outcome.message,
                      ![c].errorName = outcome.name]
    /\ UNCHANGED <<pc, now, text, result, error, errorName, home, camera, imageInput>>

NextCalls ==
    \/ ClockTicks
    \/ \E c \in Calls : CallStarts(c)
    \/ \E c \in Calls : CallResponds(c)
    \/ \E c \in Calls : CallRejects(c)
    \/ \E c \in Calls : CallProcesses(c)

SpecCalls == InitCalls /\ [][NextCalls]_vars

-----------------------------------------------------------------------------
(* The analyzeImage of unnamed/part_005: the trees are recomputed from the *)
(* lifetime total the response carries, nothing else is validated, and an  *)
(* error is rethrown as it is.                                             *)

TREE_CO2_ABSORPTION_PER_YEAR_Part005 == 10
AVERAGE_TREE_LIFESPAN_Part005 == 40

\* part_005 lines 53-62; the argument is the raw value of the response
calculateTreesRequiredPart005(lifetime_total_kg_co2) ==
    LET num == ToNumber(lifetime_total_kg_co2)
        totalAbsorptionPerTree ==
            TREE_CO2_ABSORPTION_PER_YEAR_Part005 * AVERAGE_TREE_LIFESPAN_Part005
    IN IF JsLe(num, Zero) THEN Zero
       ELSE MathMax(One, CeilOfQuotient(num, totalAbsorptionPerTree))

\* part_005 lines 140-146: the TypeErrors of the map over the objects
mapTreesThrowsPart005(parsedResult) ==
    \/ parsedResult.t # "object"
    \/ parsedResult.objects.t # "array"
    \/ \E i \in DOMAIN parsedResult.objects.items :
          \/ parsedResult.objects.items[i].t # "object"
          \/ parsedResult.objects.items[i].carbon_footprint.t # "object"

\* part_005 lines 140-147: parsedResult with the trees of every object set
mapTreesPart005(parsedResult) ==
    [parsedResult EXCEPT
       !.objects.items =
           [i \in DOMAIN parsedResult.objects.items |->
               LET obj == parsedResult.objects.items[i]
               IN [obj EXCEPT !.carbon_footprint.trees_required =
                      calculateTreesRequiredPart005(
                          obj.carbon_footprint.lifetime_total_kg_co2)]]]

\* part_005 lines 155-158: the error is rethrown unchanged
RejectedPart005(name, message) ==
    [status |-> "rejected", value |-> EmptyResponse, message |-> message, name |-> name]

\* part_005 lines 148-154: the catch of the inner try, which also catches a
\* TypeError of the map
fallbackPart005(toks) ==
    LET jsonMatch == match(toks)
    IN IF ~jsonMatch.found
       THEN RejectedPart005("Error", "Could not parse Gemini API response as JSON")
       ELSE LET second == JSONparse(jsonMatch.value)
            IN IF second.ok THEN Fulfilled(second.value)
               ELSE RejectedPart005("SyntaxError", "SyntaxError")

\* part_005 lines 132-160: what this analyzeImage does with the response text
analyzeImagePart005(toks) ==
    LET direct == JSONparse(toks)
    IN IF direct.ok /\ ~mapTreesThrowsPart005(direct.value)
       THEN Fulfilled(mapTreesPart005(direct.value))
       ELSE fallbackPart005(toks)

\* part_005 lines 133, 155-158: the external call fails
GenerateContentRejectsPart005 ==
    /\ pc = "awaiting"
    /\ pc' = "failed"
    /\ error' = RejectedPart005("Error", "fetch failed").message
    /\ errorName' = RejectedPart005("Error", "fetch failed").name
    /\ UNCHANGED <<now, text, result, calls, home, camera, imageInput>>

\* part_005 lines 137-159, run to completion
ProcessPart005 ==
    /\ pc = "responded"
    /\ LET outcome == analyzeImagePart005(text)
       IN /\ pc' = IF outcome.status = "fulfilled" THEN "done" ELSE "failed"
          /\ result' = outcome.value
          /\ error' = outcome.message
          /\ errorName' = outcome.name
    /\ UNCHANGED <<now, text, calls, home, camera, imageInput>>

NextPart005 ==
    \/ Call
    \/ GenerateContentResolves
    \/ GenerateContentRejectsPart005
    \/ ProcessPart005

SpecPart005 == Init /\ [][NextPart005]_vars

-----------------------------------------------------------------------------
(* The page (Home, README.md lines 70-88).  home holds the three pieces of *)
(* React state and the handleImageCapture invocations in the order they    *)
(* were started; nothing disables the inputs while an analysis runs, so    *)
(* invocations overlap.                                                    *)

\* the state of the core's single call, which no step of a component changes
coreVars == <<pc, now, text, result, error, errorName, calls>>

\* useState<AnalysisResult | null>(null)
NullResult == [EmptyResponse EXCEPT !.t = "null"]

\* the outcomes analyzeImage may settle with
Outcomes ==
    {analyzeImage(toks, 0) : toks \in CallTexts} \cup {Rejected("fetch failed")}

\* lines 77-78: setIsAnalyzing(true); setError(null)
homeAfterSubmit(h) == [h EXCEPT !.isAnalyzing = TRUE, !.error = Null]

\* lines 80-81, 86: setResult(analysisResult); finally setIsAnalyzing(false)
homeAfterFulfilled(h, value) == [h EXCEPT !.result = value, !.isAnalyzing = FALSE]

\* variant: the catch also clears the result
homeAfterRejectedClearsResult(h) ==
    [h EXCEPT !.error = Str("Failed to analyze image. Please try again."),
              !.result = NullResult,
              !.isAnalyzing = FALSE]

\* lines 82-86: setError(...); finally setIsAnalyzing(false)
homeAfterRejected(h) ==
    [h EXCEPT !.error = Str("Failed to analyze image. Please try again."),
              !.isAnalyzing = FALSE]

InitHome ==
    /\ pc = "idle"
    /\ now = 0
    /\ text = <<>>
    /\ result = EmptyResponse
    /\ error = NoError
    /\ errorName = ""
    /\ calls = <<>>
    /\ home = [isAnalyzing |-> FALSE, result |-> NullResult, error |-> Null,
               started |-> <<>>]
    /\ camera = NotMounted
    /\ imageInput = NotMounted

\* an image is submitted: lines 76-80 up to the await.  alone records that
\* no earlier invocation was awaiting at that moment
handleImageCapture ==
    /\ Len(home.started) < MaxSubmits
    /\ home' = [homeAfterSubmit(home) EXCEPT
                   !.started = Append(home.started,
                       [pc |-> "awaiting", outcome |-> Fulfilled(EmptyResponse),
                        alone |-> \A j \in DOMAIN home.started :
                                     home.started[j].pc = "settled"])]
    /\ UNCHANGED <<coreVars, camera, imageInput>>

\* the analyzeImage of invocation k resolves: lines 80-81 and 85-86
AnalyzeImageFulfills(k) ==
    /\ home.started[k].pc = "awaiting"
    /\ \E o \in Outcomes :
          /\ o.status = "fulfilled"
          /\ home' = [homeAfterFulfilled(home, o.value) EXCEPT
                         !.started[k].pc = "settled", !.started[k].outcome = o]
    /\ UNCHANGED <<coreVars, camera, imageInput>>

\* the analyzeImage of invocation k rejects: lines 82-86
AnalyzeImageRejects(k) ==
    /\ home.started[k].pc = "awaiting"
    /\ \E o \in Outcomes :
          /\ o.status = "rejected"
          /\ home' = [homeAfterRejected(home) EXCEPT
                         !.started[k].pc = "settled", !.started[k].outcome = o]
    /\ UNCHANGED <<coreVars, camera, imageInput>>

NextHome ==
    \/ handleImageCapture
    \/ \E k \in DOMAIN home.started : AnalyzeImageFulfills(k)
    \/ \E k \in DOMAIN home.started : AnalyzeImageRejects(k)

SpecHome == InitHome /\ [][NextHome]_vars

-----------------------------------------------------------------------------
(* CameraCapture (components/camera-capture.tsx).  camera holds the React  *)
(* state, the srcObject of the video element (0 for null, else the number  *)
(* of the stream), the streams whose tracks are live, the getUserMedia     *)
(* requests of the current startCamera, and the calls of onCapture.  The   *)
(* buttons are disabled while isSwitching (lines 195-203), so a click is   *)
(* taken only when no startCamera is under way.                            *)

\* line 115
FailedToAccessCamera ==
    Str("Failed to access camera. Please check your camera permissions and try again.")

\* line 106
SwitchingMayNotWork ==
    Str("Camera switching may not work on this device. You can still capture images.")

\* lines 159-166: the video element is rendered, and videoRef.current set,
\* while there is no captured image
videoMounted(c) == c.capturedImage = Null

\* lines 57-75, 87-89, 102: the constraints of the n-th request
constraintsOf(c, n) ==
    CASE n = 1 -> [kind |-> "primary", facingMode |-> c.facingMode, exact |-> c.isMobile]
      [] n = 2 -> [kind |-> "facingMode", facingMode |-> c.facingMode, exact |-> FALSE]
      [] OTHER -> [kind |-> "video", facingMode |-> "", exact |-> FALSE]

\* the n-th getUserMedia request is sent
request(c, n) ==
    [c EXCEPT !.pc = n,
              !.attempts = Append(@, [constraints |-> constraintsOf(c, n),
                                      outcome |-> "pending"])]

\* lines 46-50: every track of the attached stream is stopped
stopAttached(c) ==
    IF videoMounted(c) /\ c.srcObject # 0
    THEN [c EXCEPT !.live = @ \ {c.srcObject}, !.srcObject = 0]
    ELSE c

\* variant: the attached stream is left running
startCameraKeepsStream(c) ==
    request([c EXCEPT !.error = Null,
                      !.capturedImage = Null,
                      !.isSwitching = TRUE,
                      !.attempts = <<>>,
                      !.starts = @ + 1], 1)

\* lines 40-78: startCamera up to its first await
startCamera(c) ==
    request([stopAttached(c) EXCEPT !.error = Null,
                                    !.capturedImage = Null,
                                    !.isSwitching = TRUE,
                                    !.attempts = <<>>,
                                    !.starts = @ + 1], 1)

\* the outcome of the request under way is recorded
settled(c, outcome) == [c EXCEPT !.attempts[c.pc].outcome = outcome]

\* lines 78-82, 92-96, 102-107, 117-119: a request resolves with a new
\* stream, whose tracks are live
afterResolved(c) ==
    LET stream == c.acquired + 1
        got == [settled(c, "resolved") EXCEPT !.acquired = stream, !.live = @ \cup {stream}]
        attached ==
            IF videoMounted(c)
            THEN [got EXCEPT !.srcObject = stream,
                             !.isStreaming = TRUE,
                             !.error = IF c.pc = 3 THEN SwitchingMayNotWork ELSE @]
            ELSE got
    IN [attached EXCEPT !.isSwitching = FALSE, !.pc = 0]

\* variant: no last resort; the second failure is final
afterRejectedNoLastResort(c) ==
    IF c.pc < 2
    THEN request(settled(c, "rejected"), c.pc + 1)
    ELSE [settled(c, "rejected") EXCEPT !.error = FailedToAccessCamera,
                                       !.isStreaming = FALSE,
                                       !.isSwitching = FALSE,
                                       !.pc = 0]

\* lines 83-119: a request rejects: the next constraints are tried, and
\* after the third the error is shown
afterRejected(c) ==
    IF c.pc < 3
    THEN request(settled(c, "rejected"), c.pc + 1)
    ELSE [settled(c, "rejected") EXCEPT !.error = FailedToAccessCamera,
                                       !.isStreaming = FALSE,
                                       !.isSwitching = FALSE,
                                       !.pc = 0]

\* lines 147-155
stopCamera(c) ==
    IF videoMounted(c) /\ c.srcObject # 0
    THEN [c EXCEPT !.live = @ \ {c.srcObject},
                   !.srcObject = 0,
                   !.isStreaming = FALSE,
                   !.error = Null]
    ELSE c

\* lines 126-145; ctx tells whether getContext('2d') gave a context.  The
\* video element is still mounted when stopCamera runs
captureImage(c, ctx) ==
    IF videoMounted(c) /\ ctx
    THEN [stopCamera(c) EXCEPT !.capturedImage = Str("data:image/jpeg;base64,frame"),
                              !.onCapture = Append(@, Str("frame"))]
    ELSE c

InitCamera ==
    /\ pc = "idle"
    /\ now = 0
    /\ text = <<>>
    /\ result = EmptyResponse
    /\ error = NoError
    /\ errorName = ""
    /\ calls = <<>>
    /\ home = NotMounted
    /\ imageInput = NotMounted
    /\ \E mobile \in BOOLEAN :
          camera = [isStreaming |-> FALSE, facingMode |-> "environment",
                    isSwitching |-> FALSE, isMobile |-> mobile, error |-> Null,
                    capturedImage |-> Null, srcObject |-> 0, live |-> {},
                    acquired |-> 0, pc |-> 0, attempts |-> <<>>, starts |-> 0,
                    onCapture |-> <<>>, lastOp |-> "none"]

\* lines 194-198: Start Camera / Retake Photo
ClickStart ==
    /\ ~camera.isStreaming
    /\ ~camera.isSwitching
    /\ camera.starts < MaxStarts
    /\ camera' = [startCamera(camera) EXCEPT !.lastOp = "startCamera"]
    /\ UNCHANGED <<coreVars, home, imageInput>>

\* lines 122-124, 34-38: Switch sets facingMode, and the effect starts the
\* camera again
ClickSwitch ==
    /\ camera.isStreaming
    /\ ~camera.isSwitching
    /\ camera.starts < MaxStarts
    /\ camera' = startCamera([camera EXCEPT !.facingMode =
                       IF @ = "user" THEN "environment" ELSE "user",
                                            !.lastOp = "switchCamera"])
    /\ UNCHANGED <<coreVars, home, imageInput>>

GetUserMediaResolves ==
    /\ camera.pc # 0
    /\ camera' = afterResolved(camera)
    /\ UNCHANGED <<coreVars, home, imageInput>>

GetUserMediaRejects ==
    /\ camera.pc # 0
    /\ camera' = afterRejected(camera)
    /\ UNCHANGED <<coreVars, home, imageInput>>

\* line 201; lastOp records the handler that ran last, and for captureImage
\* whether it had a drawing context
ClickCapture ==
    /\ camera.isStreaming
    /\ ~camera.isSwitching
    /\ \E ctx \in BOOLEAN :
          camera' = [captureImage(camera, ctx) EXCEPT !.lastOp =
                        IF ctx THEN "captureImage" ELSE "captureImage:noContext"]
    /\ UNCHANGED <<coreVars, home, imageInput>>

\* line 202
ClickStop ==
    /\ camera.isStreaming
    /\ ~camera.isSwitching
    /\ camera' = [stopCamera(camera) EXCEPT !.lastOp = "stopCamera"]
    /\ UNCHANGED <<coreVars, home, imageInput>>

NextCamera ==
    \/ ClickStart
    \/ ClickSwitch
    \/ GetUserMediaResolves
    \/ GetUserMediaRejects
    \/ ClickCapture
    \/ ClickStop

SpecCamera == InitCamera /\ [][NextCamera]_vars

-----------------------------------------------------------------------------
\* ImageInput (src/components/image-input.tsx).  imageInput holds the
\* component's state (selectedImage, error), its maxSizeMB prop, the
\* FileReaders it created, the calls of onCapture and the FileLists its
\* handler was given.

\* number of times a file selection is handled
MaxSelections == 2

\* line 11: maxSizeMB = 5
DefaultMaxSizeMB == 5

\* a limit a parent passes instead of the default
OtherMaxSizeMB == 1

\* line 23: file.size / (1024 * 1024)
BytesPerMB == 1024 * 1024

\* a string as its tokens (a comma is a token of its own), null and undefined
StringOf(toks) == [t |-> "string", toks |-> toks]
NullString == [t |-> "null", toks |-> <<>>]
UndefinedString == [t |-> "undefined", toks |-> <<>>]

\* line 25
fileSizeError(maxSizeMB) ==
    Str("File size must be less than " \o ToString(maxSizeMB) \o "MB")

\* line 36
ErrorProcessingImage == Str("Error processing image. Please try again.")

\* line 42
ErrorReadingFile == Str("Error reading file. Please try again.")

\* base64 of a group of three bytes
base64Group(group) ==
    CASE group = "ABC" -> "QUJD"
      [] group = "xyz" -> "eHl6"

\* base64 of a file's content, three bytes at a time
base64(content) == [k \in DOMAIN content |-> base64Group(content[k])]

\* line 46: FileReader.readAsDataURL gives "data:<type>;base64,<payload>"
readAsDataURL(file) ==
    StringOf(<<"data:" \o file.type \o ";base64", ",">> \o base64(file.content))

\* String.prototype.split on a separator token
RECURSIVE split(_, _)
split(toks, sep) ==
    IF \E k \in DOMAIN toks : toks[k] = sep
    THEN LET k == CHOOSE k \in DOMAIN toks :
                      /\ toks[k] = sep
                      /\ \A l \in 1 .. k - 1 : toks[l] # sep
         IN <<SubSeq(toks, 1, k - 1)>> \o split(SubSeq(toks, k + 1, Len(toks)), sep)
    ELSE <<toks>>

\* variant: the data URL is passed on whole
base64StringKeepsPrefix(readerResult) == readerResult

\* line 32: (reader.result as string).split(',')[1]; the caller has checked
\* that reader.result is a string
base64String(readerResult) ==
    LET parts == split(readerResult.toks, ",")
    IN IF Len(parts) >= 2 THEN StringOf(parts[2]) ELSE UndefinedString

\* lines 23-24: fileSizeMB > maxSizeMB, with fileSizeMB = file.size / (1024 * 1024)
tooLarge(file, maxSizeMB) == file.size > maxSizeMB * BytesPerMB

\* lines 17-48: handleFileSelect, given event.target.files
handleFileSelect(i, files) ==
    LET cleared == [i EXCEPT !.error = Null, !.selections = Append(@, files)]
    IN IF files = <<>>
       THEN cleared
       ELSE IF tooLarge(files[1], i.maxSizeMB)
            THEN [cleared EXCEPT !.error = fileSizeError(i.maxSizeMB)]
            ELSE [cleared EXCEPT !.readers =
                      Append(@, [file |-> files[1], readyState |-> "loading",
                                 result |-> NullString])]

\* lines 30-40: reader.onloadend
onloadend(i, k) ==
    LET readerResult == i.readers[k].result
    IN IF readerResult.t = "string"
       THEN [i EXCEPT !.selectedImage = readerResult,
                      !.onCapture = Append(@, [reader |-> k,
                                               imageData |-> base64String(readerResult)])]
       ELSE [i EXCEPT !.error = ErrorProcessingImage]

\* lines 42-45: reader.onerror
onerror(i, k) == [i EXCEPT !.error = ErrorReadingFile]

\* the files a user picks: at the limit, one byte over it, and well under it
Files(maxSizeMB) ==
    [size : {BytesPerMB \div 2, maxSizeMB * BytesPerMB, maxSizeMB * BytesPerMB + 1},
     type : {"image/png"},
     content : {<<"ABC">>, <<"xyz", "ABC">>}]

InitImageInput ==
    /\ pc = "idle"
    /\ now = 0
    /\ text = <<>>
    /\ result = EmptyResponse
    /\ error = NoError
    /\ errorName = ""
    /\ calls = <<>>
    /\ home = NotMounted
    /\ camera = NotMounted
    /\ \E maxSizeMB \in {DefaultMaxSizeMB, OtherMaxSizeMB} :
          imageInput = [maxSizeMB |-> maxSizeMB, selectedImage |-> NullString,
                        error |-> Null, readers |-> <<>>, onCapture |-> <<>>,
                        selections |-> <<>>]

\* line 66: the input's change event
FileInputChanges ==
    /\ Len(imageInput.selections) < MaxSelections
    /\ \E files \in {<<>>} \cup {<<file>> : file \in Files(imageInput.maxSizeMB)} :
          imageInput' = handleFileSelect(imageInput, files)
    /\ UNCHANGED <<coreVars, home, camera>>

\* the read succeeds: load, then loadend
ReaderLoads(k) ==
    /\ imageInput.readers[k].readyState = "loading"
    /\ LET file == imageInput.readers[k].file
           done == [imageInput EXCEPT !.readers[k].readyState = "done",
                                      !.readers[k].result = readAsDataURL(file)]
       IN imageInput' = onloadend(done, k)
    /\ UNCHANGED <<coreVars, home, camera>>

\* the read fails: error, then loadend, with reader.result null
ReaderFails(k) ==
    /\ imageInput.readers[k].readyState = "loading"
    /\ LET done == [imageInput EXCEPT !.readers[k].readyState = "failed"]
       IN imageInput' = onloadend(onerror(done, k), k)
    /\ UNCHANGED <<coreVars, home, camera>>

NextImageInput ==
    \/ FileInputChanges
    \/ \E k \in DOMAIN imageInput.readers : ReaderLoads(k)
    \/ \E k \in DOMAIN imageInput.readers : ReaderFails(k)

SpecImageInput == InitImageInput /\ [][NextImageInput]_vars

-----------------------------------------------------------------------------
(* Vocabulary of the properties. *)

\* the value the settled call extracted from the response text
parsedResult == extractJson(text).value

rawObjects == parsedResult.objects.items
outObjects == result.objects.items

InUnitInterval(v) == JsLe(Zero, v) /\ JsLe(v, One)

\* M + D * 365 * L in the arithmetic of the program
LifetimeFormula(m, d, l) == JsAdd(m, JsMul(JsMul(d, Int2Num(365)), l))

\* tr is the least whole number of trees absorbing lt, at 880 kg a tree
IsCeilingOver880(tr, lt) ==
    /\ IsFinite(tr)
    /\ tr.n % Scale = 0
    /\ (tr.n \div Scale) * 880 * Scale >= lt.n
    /\ ((tr.n \div Scale) - 1) * 880 * Scale < lt.n

-----------------------------------------------------------------------------
(* C1..C10 *)

\* C1: for every object outside the human category, the returned
\* lifetime_total_kg_co2 is M + D * 365 * L of the coerced and clamped inputs
\* (M, D >= 0, L >= 1), whatever lifetime total the input carried.
C1_LifetimeRecomputed ==
    pc = "done" =>
        \A i \in DOMAIN outObjects :
            LET raw == rawObjects[i]
                m == validateNumber(raw.carbon_footprint.manufacturing_kg_co2, Zero, Infinity)
                d == validateNumber(raw.carbon_footprint.daily_operation_kg_co2, Zero, Infinity)
                l == validateNumber(raw.metadata.assumed_lifespan_years, One, Infinity)
            IN ~IsHuman(raw.metadata) =>
                 /\ JsLe(Zero, m) /\ JsLe(Zero, d) /\ JsLe(One, l)
                 /\ outObjects[i].carbon_footprint.lifetime_total_kg_co2
                      = LifetimeFormula(m, d, l)

\* a non-human object whose input lifetime total is a number other than the
\* recomputed, finite, positive one
C1_Witness ==
    /\ pc = "done"
    /\ \E i \in DOMAIN outObjects :
          LET lt == outObjects[i].carbon_footprint.lifetime_total_kg_co2
              given == rawObjects[i].carbon_footprint.lifetime_total_kg_co2
          IN /\ ~IsHuman(rawObjects[i].metadata)
             /\ IsFinite(given) /\ IsFinite(lt) /\ lt.n > Scale
             /\ given # lt

\* C2 as stated: in every object of every result, lifetime_total_kg_co2 equals
\* manufacturing + daily_operation * 365 * assumed_lifespan_years of the output.
C2_EveryObjectConsistent ==
    pc = "done" =>
        \A i \in DOMAIN outObjects :
            LET o == outObjects[i]
            IN o.carbon_footprint.lifetime_total_kg_co2
                 = LifetimeFormula(o.carbon_footprint.manufacturing_kg_co2,
                                   o.carbon_footprint.daily_operation_kg_co2,
                                   o.metadata.assumed_lifespan_years)

\* C2 amended: the output fields are consistent in every object outside the
\* human category; a human object carries the fixed totals 0, 15 and 400000
\* whatever its lifespan.
C2_NonHumanConsistent ==
    pc = "done" =>
        \A i \in DOMAIN outObjects :
            LET o == outObjects[i]
            IN IF IsHuman(o.metadata)
               THEN /\ o.carbon_footprint.manufacturing_kg_co2 = Zero
                    /\ o.carbon_footprint.daily_operation_kg_co2 = Int2Num(15)
                    /\ o.carbon_footprint.lifetime_total_kg_co2 = Int2Num(400000)
               ELSE o.carbon_footprint.lifetime_total_kg_co2
                      = LifetimeFormula(o.carbon_footprint.manufacturing_kg_co2,
                                        o.carbon_footprint.daily_operation_kg_co2,
                                        o.metadata.assumed_lifespan_years)

\* a non-human object whose lifespan was defaulted or clamped to 1 and whose
\* operation term is positive, beside which a human object may stand
C2_Witness ==
    /\ pc = "done"
    /\ \E i \in DOMAIN outObjects :
          LET o == outObjects[i]
          IN /\ ~IsHuman(o.metadata)
             /\ rawObjects[i].metadata.assumed_lifespan_years # o.metadata.assumed_lifespan_years
             /\ o.carbon_footprint.daily_operation_kg_co2.n > 0
             /\ IsFinite(o.carbon_footprint.lifetime_total_kg_co2)
             /\ o.carbon_footprint.lifetime_total_kg_co2.n
                  > o.carbon_footprint.manufacturing_kg_co2.n

\* the scores of a source list
ScoresOf(list) == {list.items[k].reliability_score : k \in DOMAIN list.items}

\* every confidence and reliability score of a result
AllScores(r) ==
    {r.objects.items[i].carbon_footprint.confidence_score : i \in DOMAIN r.objects.items}
    \cup UNION {ScoresOf(r.objects.items[i].carbon_footprint.sources) :
                  i \in DOMAIN r.objects.items}
    \cup {r.objects.items[i].metadata.methodology_source.reliability_score :
            i \in {j \in DOMAIN r.objects.items :
                     r.objects.items[j].metadata.methodology_source.t = "object"}}
    \cup ScoresOf(r.analysis_metadata.data_sources)

\* C3: every confidence_score and every reliability_score of a returned
\* result (object sources, methodology_source, data_sources) lies in [0,1].
C3_ScoresInUnitInterval ==
    pc = "done" => \A v \in AllScores(result) : InUnitInterval(v)

\* a result made from scores that were missing, non-numeric, negative or
\* above 1, in each of the places a score occurs
C3_Witness ==
    /\ pc = "done"
    /\ \E v \in AllScores(parsedResult) : ~InUnitInterval(ToNumber(v))
    /\ AllScores(result) # {}
    /\ \E i \in DOMAIN outObjects :
          outObjects[i].carbon_footprint.confidence_score
             # rawObjects[i].carbon_footprint.confidence_score

\* C4 as stated: every object of a result has trees_required >= 1.
C4_TreesAtLeastOne ==
    pc = "done" =>
        \A i \in DOMAIN outObjects :
            JsLe(One, outObjects[i].carbon_footprint.trees_required)

\* C5: for a lifetime total > 0 the trees required are ceil(total / 880), and
\* the output trees_required is that function of the output lifetime total,
\* not the input's trees_required.
C5_TreesAreCeiling ==
    pc = "done" =>
        \A i \in DOMAIN outObjects :
            LET lt == outObjects[i].carbon_footprint.lifetime_total_kg_co2
                tr == outObjects[i].carbon_footprint.trees_required
            IN /\ (IsFinite(lt) /\ lt.n > 0) => IsCeilingOver880(tr, lt)
               /\ lt = Infinity => tr = Infinity
               /\ TREE_CO2_ABSORPTION_PER_YEAR * AVERAGE_TREE_LIFESPAN = 880

\* an object that needs more than one tree, and whose input proposed another
\* number of trees
C5_Witness ==
    /\ pc = "done"
    /\ \E i \in DOMAIN outObjects :
          LET lt == outObjects[i].carbon_footprint.lifetime_total_kg_co2
              tr == outObjects[i].carbon_footprint.trees_required
          IN /\ IsFinite(lt) /\ lt.n > 880 * Scale /\ lt.n % (880 * Scale) # 0
             /\ ~IsHuman(outObjects[i].metadata)
             /\ tr = Int2Num(2)
             /\ rawObjects[i].carbon_footprint.trees_required = Int2Num(9)

\* C6: number_of_objects_detected of a result is the length of its objects,
\* whatever count the response claimed.
C6_CountIsLength ==
    pc = "done" =>
        result.analysis_metadata.number_of_objects_detected = Int2Num(Len(outObjects))

\* a result whose response claimed another count, or none, or a text
C6_Witness ==
    /\ pc = "done"
    /\ Len(outObjects) = 1
    /\ parsedResult.analysis_metadata.number_of_objects_detected
          \in {Undefined, Str("abc"), Zero}

\* C7 as stated: a result written back as JSON and put through the same
\* extraction and normalisation (at the same clock reading) is returned
\* unchanged.
C7_Idempotent ==
    pc = "done" => analyzeImage(JSONstringify(result), now) = Fulfilled(result)

\* the derived and clock-set fields of a response, replaced wherever the
\* sub-object that holds them is present
WithDerived(r, alt) ==
    [r EXCEPT
       !.objects.items =
           [i \in DOMAIN r.objects.items |->
               LET o == r.objects.items[i]
               IN IF o.carbon_footprint.t # "object" THEN o
                  ELSE [o EXCEPT !.carbon_footprint.lifetime_total_kg_co2 = alt.lifetime,
                                 !.carbon_footprint.trees_required = alt.trees,
                                 !.carbon_footprint.calculation_basis = alt.basis,
                                 !.carbon_footprint.unit = alt.unit]],
       !.analysis_metadata =
           IF r.analysis_metadata.t # "object" THEN r.analysis_metadata
           ELSE [r.analysis_metadata EXCEPT !.number_of_objects_detected = alt.count,
                                            !.timestamp = alt.timestamp]]

DerivedAlternatives ==
    [lifetime : {Undefined, Int2Num(3), Infinity},
     trees : {Null, Zero, Int2Num(900)},
     basis : {Undefined, Str("global_fixed_value")},
     unit : {Str("kg_co2"), Str("tonnes")},
     count : {Str("abc"), Int2Num(5)},
     timestamp : {Undefined, Str("T1")}]

\* C8: two responses that differ only in lifetime_total_kg_co2,
\* trees_required, calculation_basis, unit, number_of_objects_detected and
\* timestamp settle the call in the same way when processed at the same time.
C8_DerivedFieldsIgnored ==
    (pc \in {"done", "failed"} /\ extractJson(text).ok /\ parsedResult.t = "object") =>
        \A alt \in DerivedAlternatives :
            LET other == analyzeImage(JsonText(WithDerived(parsedResult, alt)), now)
            IN /\ (other.status = "fulfilled") = (pc = "done")
               /\ other.value = result
               /\ other.message = error

\* a result whose response carried its own unit, basis, timestamp and trees
C8_Witness ==
    /\ pc = "done"
    /\ Len(outObjects) >= 1
    /\ parsedResult.analysis_metadata.timestamp.t = "string"
    /\ parsedResult.analysis_metadata.timestamp # result.analysis_metadata.timestamp
    /\ \E i \in DOMAIN outObjects :
          /\ rawObjects[i].carbon_footprint.unit = Str("kg")
          /\ outObjects[i].carbon_footprint.unit = Str("kg_co2")
          /\ rawObjects[i].carbon_footprint.calculation_basis.t = "string"
          /\ rawObjects[i].carbon_footprint.calculation_basis
                # outObjects[i].carbon_footprint.calculation_basis

\* C9: an object in the human category gets the fixed record (0, 15, 400000,
\* 0.99, the single source "Global standardized human values", the trees of
\* 400000 kg), whatever its name and its input footprint.
C9_HumanRecord ==
    pc = "done" =>
        \A i \in DOMAIN outObjects :
            LET md == rawObjects[i].metadata
                f == outObjects[i].carbon_footprint
            IN (\/ md.geographical_region = Str("Global standardized")
                \/ md.data_source = Str("Global standardized human values")) =>
                 /\ f.manufacturing_kg_co2 = Zero
                 /\ f.daily_operation_kg_co2 = Int2Num(15)
                 /\ f.lifetime_total_kg_co2 = Int2Num(400000)
                 /\ f.confidence_score = Num((99 * Scale) \div 100)
                 /\ Len(f.sources.items) = 1
                 /\ f.sources.items[1].name = Str("Global standardized human values")
                 /\ f.trees_required = calculateTreesRequired(Int2Num(400000))
                 /\ f.trees_required = Int2Num(455)

\* a human object, by its region alone, whose input had an infinite
\* manufacturing value and a source list that is no array
C9_Witness ==
    /\ pc = "done"
    /\ \E i \in DOMAIN outObjects :
          /\ rawObjects[i].metadata.geographical_region = Str("Global standardized")
          /\ rawObjects[i].metadata.data_source # Str("Global standardized human values")
          /\ rawObjects[i].carbon_footprint.manufacturing_kg_co2 = Infinity
          /\ rawObjects[i].carbon_footprint.sources.t = "string"
          /\ outObjects[i].carbon_footprint.lifetime_total_kg_co2 = Int2Num(400000)

\* C10: when the direct parse fails and the brace match is the text of a JSON
\* object J, the call settles exactly as it does on the text of J alone.
C10_FallbackSameAsClean ==
    (/\ pc \in {"done", "failed"}
     /\ ~JSONparse(text).ok
     /\ match(text).found
     /\ JSONparse(match(text).value).ok) =>
        LET J == JSONparse(match(text).value).value
            clean == analyzeImage(JsonText(J), now)
        IN /\ JSONparse(JsonText(J)).ok
           /\ (clean.status = "fulfilled") = (pc = "done")
           /\ clean.value = result
           /\ clean.message = error

\* a result, with objects, made from a response wrapped in prose on both sides
C10_Witness ==
    /\ pc = "done"
    /\ Len(text) = 5
    /\ text[1].c = "w"
    /\ text[5].c = "w"
    /\ text[3].c = "body"
    /\ Len(outObjects) = 2
    /\ result = analyzeImage(SubSeq(text, 2, 4), now).value

-----------------------------------------------------------------------------
(* C11..C20 *)

\* the call settled on a response text (the external call did not fail)
settledOnText ==
    /\ pc \in {"done", "failed"}
    /\ error # Rejected("fetch failed").message

\* the call failed in the extraction step
extractionFailed ==
    /\ pc = "failed"
    /\ error \in {Rejected("Invalid response format from AI model").message,
                  Rejected("SyntaxError").message}

\* the tokens i..j of the text are the text of a JSON object
IsObjectAt(i, j) ==
    /\ i < j
    /\ text[i].c = "{"
    /\ text[j].c = "}"
    /\ JSONparse(SubSeq(text, i, j)).ok

\* no "{" occurs before token i and no "}" after token j
SpanIs(i, j) ==
    /\ \A k \in DOMAIN text : k < i => text[k].c # "{"
    /\ \A k \in DOMAIN text : k > j => text[k].c # "}"

\* C11 as stated: whenever the text contains the text of a JSON object,
\* whatever the prose around it (braces and further objects included),
\* extraction succeeds and yields an object the text contains.
C11_ContainedObjectExtracted ==
    settledOnText =>
        \A i, j \in DOMAIN text :
            IsObjectAt(i, j) =>
                /\ ~extractionFailed
                /\ \E a, b \in DOMAIN text :
                      /\ IsObjectAt(a, b)
                      /\ parsedResult = JSONparse(SubSeq(text, a, b)).value

\* C11 amended: extraction succeeds, and yields the object, whenever the text
\* contains the text of a JSON object with no "{" in the prose before it and
\* no "}" in the prose after it; it fails exactly when the text is no JSON
\* value and holds no such object, which includes the texts where a brace of
\* the prose widens the span from the first "{" to the last "}".
C11_ExtractedWhenProseHasNoBrace ==
    settledOnText =>
        /\ \A i, j \in DOMAIN text :
              (IsObjectAt(i, j) /\ SpanIs(i, j)) =>
                  /\ ~extractionFailed
                  /\ parsedResult = JSONparse(SubSeq(text, i, j)).value
        /\ extractionFailed <=>
              (/\ ~JSONparse(text).ok
               /\ ~\E i, j \in DOMAIN text : IsObjectAt(i, j) /\ SpanIs(i, j))

\* a result made from an object that stands between a literal and a word
C11_Witness ==
    /\ pc = "done"
    /\ Len(text) = 5
    /\ text[1].c = "lit"
    /\ text[5].c = "w"
    /\ IsObjectAt(2, 4)
    /\ Len(outObjects) >= 1

\* the response is an object with an objects array
hasObjectsArray ==
    /\ extractJson(text).ok
    /\ parsedResult.t = "object"
    /\ parsedResult.objects.t = "array"

\* C12: when an object of the parsed response has no carbon_footprint, the
\* call fails with the error of a missing sub-structure, no result is
\* returned (none for the well-formed objects either) and no footprint is
\* made up for it, whatever its metadata says.
C12_MissingFootprintRejects ==
    (/\ settledOnText
     /\ hasObjectsArray
     /\ \E i \in DOMAIN rawObjects :
           /\ rawObjects[i].t = "object"
           /\ rawObjects[i].carbon_footprint.t = "undefined") =>
        /\ pc = "failed"
        /\ error = Rejected("TypeError").message
        /\ ~extractionFailed
        /\ result = EmptyResponse

\* a failed call on two objects: the first has no footprint and metadata of
\* the human category, the second is well formed
C12_Witness ==
    /\ pc = "failed"
    /\ hasObjectsArray
    /\ Len(rawObjects) = 2
    /\ rawObjects[1].carbon_footprint.t = "undefined"
    /\ IsHuman(rawObjects[1].metadata)
    /\ rawObjects[2] = BaseObject
    /\ parsedResult.analysis_metadata.t = "object"

\* C13 as stated: a failure caused by the response text (unparseable or
\* wrongly shaped) is never reported with the error type that a failure of
\* the external call is reported with.
C13_FormatErrorHasItsOwnType ==
    (pc = "failed" /\ settledOnText) =>
        errorName # Rejected("fetch failed").name

\* the response has an objects array and an analysis_metadata object, and
\* each of its objects has a carbon_footprint and a metadata sub-object
hasRequiredShape ==
    /\ hasObjectsArray
    /\ parsedResult.analysis_metadata.t = "object"
    /\ \A i \in DOMAIN rawObjects :
          /\ rawObjects[i].t = "object"
          /\ rawObjects[i].carbon_footprint.t = "object"
          /\ rawObjects[i].metadata.t = "object"

\* C14 as stated: a response of the required shape always yields a result,
\* whatever its fields hold (sources, their entries, methodology_source and
\* data_sources included).
C14_FieldProblemsNeverRaise ==
    (settledOnText /\ hasRequiredShape) => pc = "done"

\* out is value coerced and clamped into [min, max], or min when the
\* coercion gives no number
IsClamped(out, value, min, max) ==
    LET num == ToNumber(value)
    IN IF num = NaN THEN out = min
       ELSE /\ JsLe(min, out) /\ JsLe(out, max)
            /\ (JsLe(min, num) /\ JsLe(num, max)) => out = num
            /\ ~JsLe(min, num) => out = min
            /\ ~JsLe(num, max) => out = max

\* every source list of the response is an array of objects, or absent
sourceListsWellFormed ==
    LET ok(list) ==
            /\ list.t \in {"array", "undefined", "null"}
            /\ \A k \in DOMAIN list.items : list.items[k].t = "object"
    IN /\ ok(parsedResult.analysis_metadata.data_sources)
       /\ \A i \in DOMAIN rawObjects :
             IsHuman(rawObjects[i].metadata) \/ ok(rawObjects[i].carbon_footprint.sources)

\* C15: every number that validateNumber returned is the minimum of its field
\* when the input coerces to no number, and the coerced input clamped into
\* the field's [min, max] otherwise (a manufacturing_kg_co2 of "not-a-number"
\* gives 0); and no value of a numeric field makes the call fail.
C15_ValidateNumberClamps ==
    /\ (settledOnText /\ hasRequiredShape /\ sourceListsWellFormed) => pc = "done"
    /\ pc = "done" =>
          \A i \in DOMAIN outObjects :
              LET raw == rawObjects[i]
                  out == outObjects[i]
              IN /\ IsClamped(out.metadata.assumed_lifespan_years,
                              raw.metadata.assumed_lifespan_years, One, Infinity)
                 /\ ~IsHuman(raw.metadata) =>
                       /\ IsClamped(out.carbon_footprint.manufacturing_kg_co2,
                                    raw.carbon_footprint.manufacturing_kg_co2,
                                    Zero, Infinity)
                       /\ IsClamped(out.carbon_footprint.daily_operation_kg_co2,
                                    raw.carbon_footprint.daily_operation_kg_co2,
                                    Zero, Infinity)
                       /\ IsClamped(out.carbon_footprint.confidence_score,
                                    raw.carbon_footprint.confidence_score, Zero, One)
                       /\ raw.carbon_footprint.manufacturing_kg_co2 = Str("not-a-number")
                             => out.carbon_footprint.manufacturing_kg_co2 = Zero

\* a result whose input had manufacturing_kg_co2 "not-a-number", a lifespan
\* that coerces to no number and a daily_operation_kg_co2 kept as it was
C15_Witness ==
    /\ pc = "done"
    /\ \E i \in DOMAIN outObjects :
          /\ ~IsHuman(rawObjects[i].metadata)
          /\ rawObjects[i].carbon_footprint.manufacturing_kg_co2 = Str("not-a-number")
          /\ outObjects[i].carbon_footprint.manufacturing_kg_co2 = Zero
          /\ rawObjects[i].metadata.assumed_lifespan_years = Str("abc")
          /\ outObjects[i].metadata.assumed_lifespan_years = One
          /\ outObjects[i].carbon_footprint.daily_operation_kg_co2 = Int2Num(2)

\* C16: in every object of every result, of the general and of the human
\* branch, manufacturing_kg_co2 >= 0, daily_operation_kg_co2 >= 0 and
\* metadata.assumed_lifespan_years >= 1.
C16_MagnitudesBoundedBelow ==
    pc = "done" =>
        \A i \in DOMAIN outObjects :
            /\ JsLe(Zero, outObjects[i].carbon_footprint.manufacturing_kg_co2)
            /\ JsLe(Zero, outObjects[i].carbon_footprint.daily_operation_kg_co2)
            /\ JsLe(One, outObjects[i].metadata.assumed_lifespan_years)

\* a result whose input had a negative manufacturing and daily value and a
\* lifespan below 1
C16_Witness ==
    /\ pc = "done"
    /\ \E i \in DOMAIN outObjects :
          /\ ~IsHuman(rawObjects[i].metadata)
          /\ rawObjects[i].carbon_footprint.manufacturing_kg_co2 = Num(-Half)
          /\ rawObjects[i].carbon_footprint.daily_operation_kg_co2 = Num(-Half)
          /\ rawObjects[i].metadata.assumed_lifespan_years \in {Zero, Num(Half), Num(-Half)}
          /\ outObjects[i].carbon_footprint.manufacturing_kg_co2 = Zero
          /\ outObjects[i].carbon_footprint.daily_operation_kg_co2 = Zero
          /\ outObjects[i].metadata.assumed_lifespan_years = One

\* the url of a source parses, as new URL() decides
UrlParses(url) == url.t = "string" /\ UrlSyntaxOk(url.s)

\* out is the source raw, kept, with its defaults, and with its url dropped
\* when the url is missing, does not parse or holds the placeholder
SourceKept(raw, out, t) ==
    /\ out.t = "object"
    /\ out.name = (IF Truthy(raw.name) THEN raw.name ELSE Str("Unknown Source"))
    /\ IsClamped(out.reliability_score, raw.reliability_score, Zero, One)
    /\ out.year_published
          = (IF Truthy(raw.year_published) THEN raw.year_published ELSE getFullYear(t))
    /\ out.url \in {Undefined, raw.url}
    /\ out.url # Undefined => UrlParses(out.url)
    /\ (\/ ~Truthy(raw.url)
        \/ ~UrlParses(raw.url)
        \/ raw.url = Str("https://example.com/report")) => out.url = Undefined

\* every source of the list is kept, in its place
SourcesKept(rawList, outList, t) ==
    /\ Len(outList.items) = Len(rawList.items)
    /\ \A k \in DOMAIN rawList.items :
          SourceKept(rawList.items[k], outList.items[k], t)

\* the urls of every source of a result
AllUrls(r) ==
    UNION {{r.objects.items[i].carbon_footprint.sources.items[k].url :
              k \in DOMAIN r.objects.items[i].carbon_footprint.sources.items} :
           i \in DOMAIN r.objects.items}
    \cup {r.objects.items[i].metadata.methodology_source.url : i \in DOMAIN r.objects.items}
    \cup {r.analysis_metadata.data_sources.items[k].url :
            k \in DOMAIN r.analysis_metadata.data_sources.items}

\* C17: no url makes validateSource reject: a source whose url is missing,
\* does not parse or holds the placeholder is kept with its name (or "Unknown
\* Source"), its clamped reliability_score and its year_published (or the
\* current year) and has no url in the output; no url of a result fails to
\* parse.
C17_SourceKeptWithoutBadUrl ==
    /\ (settledOnText /\ hasRequiredShape /\ sourceListsWellFormed) => pc = "done"
    /\ pc = "done" =>
          /\ \A u \in AllUrls(result) : u = Undefined \/ UrlParses(u)
          /\ SourcesKept(parsedResult.analysis_metadata.data_sources,
                         result.analysis_metadata.data_sources, now)
          /\ \A i \in DOMAIN outObjects :
                /\ ~IsHuman(rawObjects[i].metadata) =>
                      SourcesKept(rawObjects[i].carbon_footprint.sources,
                                  outObjects[i].carbon_footprint.sources, now)
                /\ rawObjects[i].metadata.methodology_source.t = "object" =>
                      SourceKept(rawObjects[i].metadata.methodology_source,
                                 outObjects[i].metadata.methodology_source, now)

\* a result with a source whose url did not parse: the source is there, with
\* its name and year, and without a url
C17_Witness ==
    /\ pc = "done"
    /\ \E i \in DOMAIN outObjects :
          LET rawList == rawObjects[i].carbon_footprint.sources
              outList == outObjects[i].carbon_footprint.sources
          IN /\ ~IsHuman(rawObjects[i].metadata)
             /\ Len(rawList.items) = 1
             /\ rawList.items[1].url \in {Str("not a url"), Num(5)}
             /\ Len(outList.items) = 1
             /\ outList.items[1].url = Undefined
             /\ outList.items[1].name = Str("EPA")
             /\ outList.items[1].year_published = Str("2020")

\* new URL(x).hostname for the url strings of the input alphabet that parse
HostOf(x) ==
    CASE x = "https://epa.gov/ghg" -> "epa.gov"
      [] x = "https://example.com/report" -> "example.com"
      [] x = "https://epa.gov/?ref=example.com" -> "epa.gov"
      [] x = "https://notexample.com/x" -> "notexample.com"
      [] OTHER -> ""

\* a url that parses and whose host is not the placeholder domain is returned
\* as it was given
UrlOfOtherHostKept(raw, out) ==
    (UrlParses(raw.url) /\ HostOf(raw.url.s) # "example.com") => out.url = raw.url

\* C18 as stated: every url that parses and whose host is not the placeholder
\* domain example.com is returned unchanged, also when the text example.com
\* occurs in its path or query or inside a longer host name.
C18_OnlyPlaceholderHostDropped ==
    pc = "done" =>
        /\ \A k \in DOMAIN result.analysis_metadata.data_sources.items :
              UrlOfOtherHostKept(parsedResult.analysis_metadata.data_sources.items[k],
                                 result.analysis_metadata.data_sources.items[k])
        /\ \A i \in DOMAIN outObjects :
              /\ ~IsHuman(rawObjects[i].metadata) =>
                    \A k \in DOMAIN outObjects[i].carbon_footprint.sources.items :
                        UrlOfOtherHostKept(rawObjects[i].carbon_footprint.sources.items[k],
                                           outObjects[i].carbon_footprint.sources.items[k])
              /\ rawObjects[i].metadata.methodology_source.t = "object" =>
                    UrlOfOtherHostKept(rawObjects[i].metadata.methodology_source,
                                       outObjects[i].metadata.methodology_source)

\* C19: the objects of a result are as many as the objects of the response
\* and stand in the same order; the sources of every general-branch object
\* and the data_sources are as many as in the response, each in the place of
\* the source it was made from, and an absent list gives an empty one.
C19_LengthAndOrderKept ==
    pc = "done" =>
        /\ Len(outObjects) = Len(rawObjects)
        /\ \A i \in DOMAIN rawObjects :
              /\ outObjects[i].name = rawObjects[i].name
              /\ IsHuman(outObjects[i].metadata) = IsHuman(rawObjects[i].metadata)
              /\ ~IsHuman(rawObjects[i].metadata) =>
                    /\ outObjects[i].carbon_footprint.sources.t = "array"
                    /\ SourcesKept(rawObjects[i].carbon_footprint.sources,
                                   outObjects[i].carbon_footprint.sources, now)
        /\ result.analysis_metadata.data_sources.t = "array"
        /\ SourcesKept(parsedResult.analysis_metadata.data_sources,
                       result.analysis_metadata.data_sources, now)

\* a result with two sources that differ, made from two sources that differ
C19_Witness ==
    /\ pc = "done"
    /\ \E i \in DOMAIN outObjects :
          LET rawList == rawObjects[i].carbon_footprint.sources.items
              outList == outObjects[i].carbon_footprint.sources.items
          IN /\ ~IsHuman(rawObjects[i].metadata)
             /\ Len(rawList) = 2
             /\ Len(outList) = 2
             /\ rawList[1] # rawList[2]
             /\ outList[1].reliability_score # outList[2].reliability_score
             /\ outList[2].reliability_score = rawList[2].reliability_score

\* invocation c settled on its response text
CallSettledOnText(c) ==
    /\ calls[c].pc \in {"done", "failed"}
    /\ calls[c].error # Rejected("fetch failed").message

\* the outcome of invocation c is the outcome of a single call on c's own
\* text at some reading t of the clock, which is the reading its timestamp
\* shows
OwnOutcome(c) ==
    \E t \in 0 .. now :
        LET alone == analyzeImage(calls[c].text, t)
        IN /\ (alone.status = "fulfilled") = (calls[c].pc = "done")
           /\ alone.value = calls[c].result
           /\ alone.message = calls[c].error
           /\ alone.name = calls[c].errorName

\* a step changes the locals of one invocation at most
OneCallPerStep ==
    \A c, d \in Calls : (c # d /\ calls'[c] # calls[c]) => calls'[d] = calls[d]

\* C20: with several calls in flight and their responses arriving in any
\* order, the result or error of each call is that of a single call on its
\* own response text and clock reading; two calls with the same text and
\* timestamp settle alike; and no step of one call changes another call's
\* state.
C20_CallsIndependent ==
    /\ [](\A c \in Calls : CallSettledOnText(c) => OwnOutcome(c))
    /\ [](\A c, d \in Calls :
            (/\ CallSettledOnText(c) /\ CallSettledOnText(d)
             /\ calls[c].text = calls[d].text
             /\ calls[c].result.analysis_metadata.timestamp
                  = calls[d].result.analysis_metadata.timestamp) =>
                /\ calls[c].result = calls[d].result
                /\ calls[c].error = calls[d].error)
    /\ [][OneCallPerStep]_vars

\* the second call has settled with a result while the first, sent earlier
\* or later, holds another response it has not processed yet
C20_Witness ==
    /\ calls # <<>>
    /\ calls[1].pc = "responded"
    /\ calls[2].pc = "done"
    /\ calls[1].text # calls[2].text
    /\ Len(calls[2].result.objects.items) = 2

-----------------------------------------------------------------------------
(* C21..C30 *)

\* out is the text field raw, or the fallback when raw is missing (absent,
\* null or empty)
TextDefaulted(out, raw, fallback) ==
    /\ raw \in {Undefined, Null, Str("")} => out = Str(fallback)
    /\ (raw.t = "string" /\ raw.s # "") => out = raw

\* C21: the metadata of every object of a result has each field defaulted on
\* its own: a lifespan that is missing or no number is 1 (one below 1 is
\* raised to 1), a missing usage_assumptions, data_source or
\* geographical_region is its fallback text, and a field that is present and
\* valid is unchanged; no value of these fields makes the call fail.
C21_MetadataDefaultedPerField ==
    /\ (settledOnText /\ hasRequiredShape /\ sourceListsWellFormed) => pc = "done"
    /\ pc = "done" =>
          \A i \in DOMAIN outObjects :
              LET raw == rawObjects[i].metadata
                  out == outObjects[i].metadata
              IN /\ IsClamped(out.assumed_lifespan_years, raw.assumed_lifespan_years,
                              One, Infinity)
                 /\ (IsFinite(raw.assumed_lifespan_years)
                        /\ raw.assumed_lifespan_years.n >= Scale) =>
                       out.assumed_lifespan_years = raw.assumed_lifespan_years
                 /\ raw.assumed_lifespan_years \in {Undefined, Str("abc")} =>
                       out.assumed_lifespan_years = One
                 /\ TextDefaulted(out.usage_assumptions, raw.usage_assumptions,
                                  "Standard usage patterns")
                 /\ TextDefaulted(out.data_source, raw.data_source,
                                  "Verified environmental impact studies")
                 /\ TextDefaulted(out.geographical_region, raw.geographical_region,
                                  "Global")

\* a result whose input had no data_source and no lifespan but a region and
\* a usage text of its own
C21_Witness ==
    /\ pc = "done"
    /\ \E i \in DOMAIN outObjects :
          LET raw == rawObjects[i].metadata
              out == outObjects[i].metadata
          IN /\ raw.data_source = Undefined
             /\ raw.assumed_lifespan_years = Undefined
             /\ raw.geographical_region = Str("Europe")
             /\ out.data_source = Str("Verified environmental impact studies")
             /\ out.assumed_lifespan_years = One
             /\ out.geographical_region = Str("Europe")
             /\ out.usage_assumptions = Str("daily use")

\* the footprint is the fixed record of the human category
IsHumanRecord(f) ==
    /\ f.calculation_basis = Str("Based on global standardized human values")
    /\ f.lifetime_total_kg_co2 = Int2Num(400000)
    /\ f.daily_operation_kg_co2 = Int2Num(15)

\* C22: an object gets the human record exactly when its data_source is
\* "Global standardized human values" or its geographical_region is "Global
\* standardized"; every other object (fields missing, or differing in case
\* or by surrounding text) has its footprint derived from its own inputs.
C22_HumanExactlyOnTrigger ==
    pc = "done" =>
        \A i \in DOMAIN outObjects :
            LET raw == rawObjects[i]
                f == outObjects[i].carbon_footprint
                trigger ==
                    \/ (raw.metadata.data_source.t = "string"
                          /\ raw.metadata.data_source.s = "Global standardized human values")
                    \/ (raw.metadata.geographical_region.t = "string"
                          /\ raw.metadata.geographical_region.s = "Global standardized")
            IN /\ IsHumanRecord(f) <=> trigger
               /\ ~trigger =>
                     /\ IsClamped(f.manufacturing_kg_co2,
                                  raw.carbon_footprint.manufacturing_kg_co2, Zero, Infinity)
                     /\ IsClamped(f.daily_operation_kg_co2,
                                  raw.carbon_footprint.daily_operation_kg_co2, Zero, Infinity)
                     /\ f.lifetime_total_kg_co2
                          = LifetimeFormula(f.manufacturing_kg_co2, f.daily_operation_kg_co2,
                                            outObjects[i].metadata.assumed_lifespan_years)
                     /\ Len(f.sources.items) = Len(raw.carbon_footprint.sources.items)

\* a result for an object whose data_source has the phrase in lower case and
\* whose region has the phrase with a word after it: no human record
C22_Witness ==
    /\ pc = "done"
    /\ \E i \in DOMAIN outObjects :
          /\ rawObjects[i].metadata.data_source = Str("global standardized human values")
          /\ rawObjects[i].metadata.geographical_region = Str("Global standardized region")
          /\ ~IsHumanRecord(outObjects[i].carbon_footprint)
          /\ outObjects[i].carbon_footprint.manufacturing_kg_co2 = Num(Half)

\* C23 as stated: in the analyzeImage of part_005 every object of a result
\* has the trees_required that calculateTreesRequired gives for its lifetime
\* total, whether the response parsed directly or was found by the brace
\* match inside prose.
C23_Part005TreesOnBothPaths ==
    (/\ pc = "done"
     /\ result.t = "object"
     /\ result.objects.t = "array"
     /\ \A i \in DOMAIN outObjects :
           outObjects[i].t = "object" /\ outObjects[i].carbon_footprint.t = "object") =>
        \A i \in DOMAIN outObjects :
            outObjects[i].carbon_footprint.trees_required
              = calculateTreesRequiredPart005(
                    outObjects[i].carbon_footprint.lifetime_total_kg_co2)

\* C24: a response object without an objects array, or without an
\* analysis_metadata object, makes the call fail with no result, also when
\* every object it has is well formed; when analysis_metadata is there, each
\* of image_quality, default_region and model_version that is missing gets
\* its default ("standard", "Global", "1.0") and missing data_sources give
\* an empty list.
C24_TopLevelShapeRequired ==
    /\ (/\ settledOnText
        /\ extractJson(text).ok
        /\ parsedResult.t = "object"
        /\ \/ parsedResult.objects.t # "array"
           \/ parsedResult.analysis_metadata.t # "object") =>
           /\ pc = "failed"
           /\ error = Rejected("TypeError").message
           /\ result = EmptyResponse
    /\ pc = "done" =>
          LET raw == parsedResult.analysis_metadata
              out == result.analysis_metadata
          IN /\ raw.t = "object"
             /\ TextDefaulted(out.image_quality, raw.image_quality, "standard")
             /\ TextDefaulted(out.default_region, raw.default_region, "Global")
             /\ TextDefaulted(out.model_version, raw.model_version, "1.0")
             /\ raw.data_sources.t \in {"undefined", "null"} =>
                   out.data_sources = Arr(<<>>)

\* a failed call on a response with one well-formed object and no
\* analysis_metadata
C24_Witness ==
    /\ pc = "failed"
    /\ extractJson(text).ok
    /\ parsedResult.objects = Arr(<<BaseObject>>)
    /\ parsedResult.analysis_metadata.t = "undefined"
    /\ error = Rejected("TypeError").message

\* some invocation of handleImageCapture has not settled
someAwaiting == \E k \in DOMAIN home.started : home.started[k].pc = "awaiting"

\* C25 as stated: isAnalyzing is true exactly while an analyzeImage call that
\* handleImageCapture started has not settled.
C25_AnalyzingWhileInFlight ==
    home.isAnalyzing = someAwaiting

\* the invocations that settled with a result
succeeded ==
    {k \in DOMAIN home.started :
        home.started[k].pc = "settled" /\ home.started[k].outcome.status = "fulfilled"}

\* C26 as stated: once every call has settled, the page holds the result of
\* the image submitted last among those that succeeded.
C26_LatestSubmittedWins ==
    (~someAwaiting /\ succeeded # {}) =>
        LET last == CHOOSE k \in succeeded : \A j \in succeeded : j <= k
        IN home.result = home.started[last].outcome.value

\* invocation k settles in this step, with the given status
SettlesWith(k, status) ==
    /\ k \in DOMAIN home.started
    /\ home.started[k].pc = "awaiting"
    /\ home'.started[k].pc = "settled"
    /\ home'.started[k].outcome.status = status

\* what a step of the page does to error and result
ErrorAndResultStep ==
    /\ (\E k \in DOMAIN home.started : SettlesWith(k, "rejected")) =>
          /\ home'.error = Str("Failed to analyze image. Please try again.")
          /\ home'.result = home.result
    /\ Len(home'.started) = Len(home.started) + 1 =>
          /\ home'.error = Null
          /\ home'.result = home.result
    /\ (\E k \in DOMAIN home.started : SettlesWith(k, "fulfilled")) =>
          home'.error = home.error

\* the last submission was made with no call in flight and has succeeded
lastSucceededAlone ==
    /\ home.started # <<>>
    /\ ~someAwaiting
    /\ home.started[Len(home.started)].alone
    /\ home.started[Len(home.started)].outcome.status = "fulfilled"

\* C27: a rejected analyzeImage sets error to 'Failed to analyze image.
\* Please try again.' and leaves the stored result as it was; every
\* submission resets error to null; and after an analysis that was submitted
\* with nothing in flight and succeeded, error is null.
C27_RejectionKeepsResult ==
    /\ [][ErrorAndResultStep]_vars
    /\ [](lastSucceededAlone =>
            /\ home.error = Null
            /\ home.result = home.started[Len(home.started)].outcome.value)

\* the second analysis, submitted after the first had succeeded, was
\* rejected: the page shows the error and still holds the first result
C27_Witness ==
    /\ home # NotMounted
    /\ Len(home.started) = 2
    /\ home.started[2].alone
    /\ home.started[1].outcome.status = "fulfilled"
    /\ home.started[2].pc = "settled"
    /\ home.started[2].outcome.status = "rejected"
    /\ home.error = Str("Failed to analyze image. Please try again.")
    /\ home.result = home.started[1].outcome.value
    /\ home.result # NullResult

\* the kinds of constraints in the order startCamera tries them
ConstraintOrder == <<"primary", "facingMode", "video">>

\* the requests of the current startCamera follow the order, each one sent
\* after the one before it was rejected
attemptsInOrder ==
    /\ Len(camera.attempts) <= 3
    /\ \A n \in DOMAIN camera.attempts :
          /\ camera.attempts[n].constraints.kind = ConstraintOrder[n]
          /\ n < Len(camera.attempts) => camera.attempts[n].outcome = "rejected"
    /\ camera.pc # 0 =>
          /\ Len(camera.attempts) = camera.pc
          /\ camera.attempts[camera.pc].outcome = "pending"

\* the step in which startCamera finishes
startCameraFinishes ==
    (camera.pc # 0 /\ camera'.pc = 0) =>
        LET last == camera'.attempts[Len(camera'.attempts)]
        IN /\ ~camera'.isSwitching
           /\ last.outcome = "resolved" =>
                 /\ camera'.isStreaming
                 /\ camera'.srcObject = camera'.acquired
                 /\ camera'.error # FailedToAccessCamera
           /\ last.outcome = "rejected" =>
                 /\ Len(camera'.attempts) = 3
                 /\ camera'.error = FailedToAccessCamera
                 /\ ~camera'.isStreaming

\* C28: startCamera requests a stream with the primary constraints, then
\* with facingMode only, then with video: true, each only after the one
\* before was rejected, and stops at the first that resolves; it finishes
\* with isStreaming true when a request resolved, with the 'Failed to access
\* camera' error and isStreaming false only when all three were rejected,
\* and with isSwitching false in every case.
C28_StartCameraFallbacks ==
    /\ [](camera # NotMounted => attemptsInOrder)
    /\ [](camera # NotMounted =>
            /\ camera.pc = 0 => ~camera.isSwitching
            /\ camera.error = FailedToAccessCamera =>
                  /\ Len(camera.attempts) = 3
                  /\ \A n \in 1 .. 3 : camera.attempts[n].outcome = "rejected")
    /\ [][startCameraFinishes]_vars

\* the camera streams after the first two requests were rejected and the
\* third, for any video, resolved
C28_Witness ==
    /\ camera # NotMounted
    /\ camera.pc = 0
    /\ Len(camera.attempts) = 3
    /\ camera.attempts[3].outcome = "resolved"
    /\ camera.attempts[3].constraints.kind = "video"
    /\ camera.isStreaming
    /\ ~camera.isSwitching
    /\ camera.srcObject # 0

\* no track is live, nothing is attached and the component does not stream
cameraReleased ==
    /\ camera.live = {}
    /\ camera.srcObject = 0
    /\ ~camera.isStreaming

\* at most one stream has live tracks and it is the attached one; none is
\* live while startCamera requests a stream
oneLiveStream ==
    /\ Cardinality(camera.live) <= 1
    /\ camera.live \subseteq {camera.srcObject}
    /\ camera.pc # 0 => camera.live = {}
    /\ (camera.pc = 0 /\ ~camera.isStreaming) =>
          (camera.live = {} /\ camera.srcObject = 0)

\* C29 as stated: at most one stream has live tracks, and it is the one
\* attached to the video element; while startCamera requests a stream none
\* is live; and after stopCamera or captureImage completes, whatever
\* captureImage did, no track is live, srcObject is null and isStreaming is
\* false.
C29_ReleasedAfterAnyCapture ==
    camera # NotMounted =>
        /\ oneLiveStream
        /\ camera.lastOp \in {"stopCamera", "captureImage", "captureImage:noContext"}
              => cameraReleased

\* C29 amended: the same, where captureImage releases the camera when it
\* obtained a 2D context and so captured a frame.
C29_OneLiveStream ==
    camera # NotMounted =>
        /\ oneLiveStream
        /\ camera.lastOp \in {"stopCamera", "captureImage"} => cameraReleased

\* the camera was started, switched and a frame was captured: both streams
\* were stopped and nothing is attached
C29_Witness ==
    /\ camera # NotMounted
    /\ camera.acquired = 2
    /\ camera.lastOp = "captureImage"
    /\ Len(camera.onCapture) = 1
    /\ camera.facingMode = "user"
    /\ cameraReleased

\* the calls of onCapture made for reader k
onCaptureCallsFor(k) ==
    {c \in DOMAIN imageInput.onCapture : imageInput.onCapture[c].reader = k}

\* a file larger than the limit gets no reader, so nothing is read and
\* onCapture is not called for it; a file that was read gets one call, with
\* the base64 of its content and nothing before it
readersAndCalls ==
    \A k \in DOMAIN imageInput.readers :
        LET reader == imageInput.readers[k]
        IN /\ ~tooLarge(reader.file, imageInput.maxSizeMB)
           /\ reader.readyState = "done" =>
                 /\ Cardinality(onCaptureCallsFor(k)) = 1
                 /\ \A c \in onCaptureCallsFor(k) :
                       imageInput.onCapture[c].imageData = StringOf(base64(reader.file.content))
           /\ reader.readyState # "done" => onCaptureCallsFor(k) = {}

\* the step in which a selection is handled
selectionStep ==
    (imageInput # NotMounted /\ imageInput'.selections # imageInput.selections) =>
        LET files == imageInput'.selections[Len(imageInput'.selections)]
            large == files # <<>> /\ files[1].size > imageInput.maxSizeMB * BytesPerMB
        IN /\ large =>
                 /\ imageInput'.error = fileSizeError(imageInput.maxSizeMB)
                 /\ imageInput'.onCapture = imageInput.onCapture
                 /\ imageInput'.selectedImage = imageInput.selectedImage
                 /\ imageInput'.readers = imageInput.readers
           /\ ~large => imageInput'.error = Null

\* C30: handleFileSelect rejects a file larger than maxSizeMB: the size
\* error is set, selectedImage stays as it was and onCapture is never called
\* for that file; a file within the limit that is read gets exactly one call
\* of onCapture, with the base64 payload of the data URL and not its prefix;
\* and each selection clears the error that was shown before it.
C30_FileSelection ==
    /\ [](imageInput # NotMounted => readersAndCalls)
    /\ [][selectionStep]_vars

\* with the default limit, a file was read and passed on, then a file one
\* byte over 5 MB was rejected
C30_Witness ==
    /\ imageInput # NotMounted
    /\ imageInput.maxSizeMB = DefaultMaxSizeMB
    /\ Len(imageInput.selections) = 2
    /\ imageInput.selections[2] # <<>>
    /\ imageInput.selections[2][1].size = DefaultMaxSizeMB * BytesPerMB + 1
    /\ imageInput.error = fileSizeError(DefaultMaxSizeMB)
    /\ Len(imageInput.readers) = 1
    /\ imageInput.readers[1].readyState = "done"
    /\ Len(imageInput.onCapture) = 1
    /\ imageInput.onCapture[1].imageData = StringOf(<<"QUJD">>)
    /\ imageInput.selectedImage = StringOf(<<"data:image/png;base64", ",", "QUJD">>)

=============================================================================
